---- MODULE Spec2Model ----
(***************************************************************************)
(* Model of the registry-agents Cloud Function HTTP handler                *)
(* (functions/src/index.ts), its contract schemas (contracts.ts) and the   *)
(* three stub agents (agents/*.ts).                                        *)
(*                                                                         *)
(* JavaScript values are modelled by records with a tag t:                 *)
(*   [t |-> "string", n |-> length]   [t |-> "array", n |-> length]        *)
(*   [t |-> "null", n |-> 0]          [t |-> "bigint", n |-> 0]            *)
(*   [t |-> "boolean", n |-> 1]       [t |-> "object", n |-> keys]         *)
(*   [t |-> "getter", n |-> ..]: a property whose getter throws            *)
(* A request body is [t, truthy, keys, vals]: its typeof class, whether it *)
(* is truthy, its own enumerable keys in Object.keys order, and the value  *)
(* of each key.                                                            *)
(* Template strings `text: ${x}` are modelled by [text |-> .., arg |-> x]. *)
(***************************************************************************)
EXTENDS Integers, Sequences, FiniteSets, TLC

\* schemas is the CONTRACT_SCHEMAS object in the memory of the process; queue is
\* the microtask queue: the slots whose next continuation is waiting, in order
VARIABLES pc, req, res, frame, calls, uuid, env, history, sdk, schemas, queue

vars == <<pc, req, res, frame, calls, uuid, env, history, sdk, schemas, queue>>

\* the variables of the Cloud Function
fnVars == <<pc, req, res, frame, calls, uuid, env, history, schemas, queue>>

(***************************************************************************)
(* Bounds of the model                                                     *)
(***************************************************************************)
\* largest number of own keys of a request body object
MaxKeys == 3
\* largest value Math.round(performance.now() - start) takes
MaxDuration == 1
\* largest number of requests a sequence of requests holds
MaxRequests == 3
\* largest number of API method calls made on one SDK client
MaxCalls == 1
\* largest number of setExecutionContext calls made on one SDK client
MaxSets == 2

\* invocations of handler the platform may keep in flight at once (Spec runs
\* one request, in slot 1; SpecSeq runs sequences of requests in both)
Slots == {1, 2}

(***************************************************************************)
(* Small helpers on sequences                                              *)
(***************************************************************************)
Range(s) == {s[k] : k \in DOMAIN s}

\* sequences over S of length n without repetition
RECURSIVE InjSeqs(_, _)
InjSeqs(S, n) ==
  IF n = 0 THEN {<<>>}
  ELSE UNION {{Append(s, x) : x \in S \ Range(s)} : s \in InjSeqs(S, n - 1)}

InjSeqsUpTo(S, n) == UNION {InjSeqs(S, k) : k \in 0..n}

\* Array.prototype.includes
Includes(s, x) == \E k \in DOMAIN s : s[k] = x

(***************************************************************************)
(* contracts.ts: CONTRACT_SCHEMAS (request side: required, properties)     *)
(***************************************************************************)
CONTRACT_SCHEMAS ==
  [index |->
     [request  |-> [required   |-> <<"mode">>,
                    properties |-> <<"asset_ids", "mode", "asset_type">>],
      response |-> [required   |-> <<"indexed_count", "failed_count", "mode", "errors">>,
                    properties |-> <<"indexed_count", "failed_count", "mode", "errors">>]],
   reputation |->
     [request  |-> [required   |-> <<"agent_id", "operation">>,
                    properties |-> <<"agent_id", "operation", "signal">>],
      response |-> [required   |-> <<"agent_id", "overall_score", "category_scores",
                                     "signal_count", "last_updated">>,
                    properties |-> <<"agent_id", "overall_score", "category_scores",
                                     "signal_count", "last_updated">>]],
   bootstrap |->
     [request  |-> [required   |-> <<"template_id", "agent_name">>,
                    properties |-> <<"template_id", "agent_name", "config_overrides">>],
      response |-> [required   |-> <<"agent_id", "agent_name", "template_id", "status",
                                     "config_applied", "endpoints">>,
                    properties |-> <<"agent_id", "agent_name", "template_id", "status",
                                     "config_applied", "endpoints">>]]]

(***************************************************************************)
(* index.ts constants                                                      *)
(***************************************************************************)
SERVICE_NAME == "registry-agents"

HEALTH_AGENTS == <<"index", "reputation", "bootstrap">>

\* Object.entries order of the CORS_HEADERS literal
CORS_HEADERS ==
  << <<"Access-Control-Allow-Origin", "*">>,
     <<"Access-Control-Allow-Methods", "GET, POST, OPTIONS">>,
     <<"Access-Control-Allow-Headers", "Content-Type, Authorization, X-Correlation-Id">>,
     <<"Access-Control-Max-Age", "3600">> >>

\* the AGENT_ROUTES table, in Object.keys order
AGENT_ROUTES ==
  << <<"/v1/registry/index", "index">>,
     <<"/v1/registry/reputation", "reputation">>,
     <<"/v1/registry/bootstrap", "bootstrap">> >>

AgentPaths == {AGENT_ROUTES[k][1] : k \in DOMAIN AGENT_ROUTES}

\* what AGENT_ROUTES[path] yields for a key the object inherits from
\* Object.prototype ("constructor", "__proto__", ...): a truthy value, no string
InheritedMember == "[inherited member]"

\* the properties every object literal inherits from Object.prototype
ObjectPrototypeProps ==
  {"constructor", "toString", "toLocaleString", "valueOf", "hasOwnProperty",
   "isPrototypeOf", "propertyIsEnumerable", "__proto__", "__defineGetter__",
   "__defineSetter__", "__lookupGetter__", "__lookupSetter__"}

\* AGENT_ROUTES[path]: the agent name, "undefined" when the key is absent
AgentRouteLookup(path) ==
  IF \E k \in DOMAIN AGENT_ROUTES : AGENT_ROUTES[k][1] = path
  THEN AGENT_ROUTES[CHOOSE k \in DOMAIN AGENT_ROUTES : AGENT_ROUTES[k][1] = path][2]
  ELSE IF path \in ObjectPrototypeProps
  THEN InheritedMember
  ELSE "undefined"

\* String.prototype.toUpperCase on the agent names
ToUpperCase(s) ==
  CASE s = "index" -> "INDEX"
    [] s = "reputation" -> "REPUTATION"
    [] s = "bootstrap" -> "BOOTSTRAP"
    [] OTHER -> s

\* the template string `REGISTRY_${agentName.toUpperCase()}`
AgentLayerName(agentName) ==
  CASE ToUpperCase(agentName) = "INDEX" -> "REGISTRY_INDEX"
    [] ToUpperCase(agentName) = "REPUTATION" -> "REGISTRY_REPUTATION"
    [] ToUpperCase(agentName) = "BOOTSTRAP" -> "REGISTRY_BOOTSTRAP"
    [] OTHER -> "REGISTRY_"

(***************************************************************************)
(* JavaScript values carried by request bodies                             *)
(***************************************************************************)
JsString == [t |-> "string", n |-> 4]       \* e.g. "full"
JsArray2 == [t |-> "array", n |-> 2]        \* e.g. ["a", "b"]
JsNull   == [t |-> "null", n |-> 0]
\* a value JSON.stringify rejects; a body parsed from JSON text never holds one,
\* a body handed to handler directly (req.body is typed unknown) may
JsBigInt == [t |-> "bigint", n |-> 0]
JsTrue   == [t |-> "boolean", n |-> 1]
JsUndefined == [t |-> "undefined", n |-> 0]
JsEmptyObject == [t |-> "object", n |-> 0]  \* the literal {}
\* an accessor property whose getter throws when the property is read: an Error
\* (n = 1) or a value that is no Error (n = 0); like a BigInt, only a body
\* handed to handler directly may hold one
JsLengthObject == [t |-> "lengthObject", n |-> 7]  \* the object { length: 7 }
JsNullLengthObject == [t |-> "nullLengthObject", n |-> 0]  \* the object { length: null }
JsNumber(n) == [t |-> "number", n |-> n]
JsQuery  == [t |-> "string", n |-> 5]       \* "query"
JsRecord == [t |-> "string", n |-> 6]       \* "record"
JsSignal == [t |-> "object", n |-> 2]       \* e.g. { score: 1, category: 'accuracy' }
JsThrowsError == [t |-> "getter", n |-> 1]
JsThrowsOther == [t |-> "getter", n |-> 0]

\* values given to the fields a schema declares
FieldValues == {JsString, JsArray2, JsNull, JsBigInt, JsThrowsError, JsThrowsOther}

\* x.length for x neither null nor undefined: a number for a string, an array
\* or { length: 7 }, null for { length: null }, undefined for anything else
JsLength(v) ==
  IF v.t \in {"string", "array", "lengthObject"} THEN JsNumber(v.n)
  ELSE IF v.t = "nullLengthObject" THEN JsNull
  ELSE JsUndefined

\* whether x ?? y yields y
Nullish(v) == v.t \in {"undefined", "null"}

\* whether JSON.stringify(v) returns (a BigInt makes it throw a TypeError)
Serializable(v) == v.t # "bigint"

\* field names that no request schema declares
UnknownFields == {"bogus", "extra"}

EmptyVals == [k \in {} |-> JsNull]

\* an object literal with the given key order and values
ObjectBody(keys, vals) == [t |-> "object", truthy |-> TRUE, keys |-> keys, vals |-> vals]

\* bodies that are absent or not object literals
UndefinedBody == [t |-> "undefined", truthy |-> FALSE, keys |-> <<>>, vals |-> EmptyVals]
NullBody      == [t |-> "null", truthy |-> FALSE, keys |-> <<>>, vals |-> EmptyVals]
ZeroBody      == [t |-> "number", truthy |-> FALSE, keys |-> <<>>, vals |-> EmptyVals]
NumberBody    == [t |-> "number", truthy |-> TRUE, keys |-> <<>>, vals |-> EmptyVals]
StringBody    == [t |-> "string", truthy |-> TRUE, keys |-> <<>>, vals |-> EmptyVals]
BooleanBody   == [t |-> "boolean", truthy |-> TRUE, keys |-> <<>>, vals |-> EmptyVals]
EmptyArrayBody == [t |-> "array", truthy |-> TRUE, keys |-> <<>>, vals |-> EmptyVals]
ArrayBody     == [t |-> "array", truthy |-> TRUE, keys |-> <<"0">>,
                  vals |-> [k \in {"0"} |-> JsString]]

NonObjectBodies ==
  {UndefinedBody, NullBody, ZeroBody, NumberBody, StringBody, BooleanBody,
   EmptyArrayBody, ArrayBody}

\* typeof body
TypeOf(body) == IF body.t \in {"null", "array"} THEN "object" ELSE body.t

\* Object.keys(body)
ObjectKeys(body) == body.keys

\* the `field in obj` operator: own keys, an array's length, inherited properties
HasProperty(body, field) ==
  \/ Includes(body.keys, field)
  \/ body.t = "array" /\ field = "length"
  \/ field \in ObjectPrototypeProps

\* body[field], undefined when the key is absent
GetField(body, field) ==
  IF Includes(body.keys, field) THEN body.vals[field] ELSE JsUndefined

\* the values a field takes in the bodies tried: a declared field every value of
\* FieldValues (asset_ids an object with a length property as well, a number
\* or null), an undeclared one the value true
ValuesFor(field, declared) ==
  IF field = "asset_ids" THEN FieldValues \cup {JsLengthObject, JsNullLengthObject}
  ELSE IF field \in declared THEN FieldValues
  ELSE {JsTrue}

(***************************************************************************)
(* Strings the handler produces or copies: [s |-> text, k |-> 0], and the  *)
(* k-th value of crypto.randomUUID() as [s |-> "uuid", k |-> k]            *)
(***************************************************************************)
Str(x) == [s |-> x, k |-> 0]

RandomUUID(k) == [s |-> "uuid", k |-> k]

\* new Date().toISOString(): the clock is not modelled
IsoNow == Str("ISO-8601")

(***************************************************************************)
(* Requests: [method, path, url, body, corr]                               *)
(*   path: <<>> when the transport gives no req.path, else <<p>>           *)
(*   url:  <<>> when there is no req.url, else <<[pathname, search]>>, the *)
(*         raw URL being pathname followed by search                       *)
(*   corr: the x-correlation-id header, [t, items] with t "undefined",     *)
(*         "string" (items = <<value>>) or "array"                         *)
(***************************************************************************)
Methods == {"GET", "POST", "OPTIONS", "PUT", "DELETE"}

CanonicalPaths == {"/health", "/contracts"} \cup AgentPaths

\* pathnames tried: the recognised ones and near misses
SlashPaths ==
  CanonicalPaths \cup
  {"/", "/v1/registry/nonexistent", "/health/", "/HEALTH", "/index",
   "/v1/registry/index/"}

\* values of an explicit req.path: a pathname, the empty string, or a string
\* without a leading slash that names a property of Object.prototype
PathFields == SlashPaths \cup {"", "constructor", "__proto__"}

Searches == {"", "?x=1"}

NoCorr == [t |-> "undefined", items |-> <<>>]

Corrs ==
  {NoCorr,
   [t |-> "string", items |-> <<"test-trace-123">>],
   [t |-> "string", items |-> <<"">>],
   [t |-> "array", items |-> <<"a", "b">>],
   [t |-> "array", items |-> <<>>],
   [t |-> "array", items |-> <<"">>]}

Request(m, p, u, b, c) == [method |-> m, path |-> p, url |-> u, body |-> b, corr |-> c]

\* a request as the test harness builds it: url and path both set to p
MockReq(m, p, b, c) ==
  Request(m, <<p>>, <<[pathname |-> p, search |-> ""]>>, b, c)

SampleIndexBody ==
  ObjectBody(<<"mode">>, [k \in {"mode"} |-> JsString])

(***************************************************************************)
(* The response object, as the handler uses it: setHeader, writeHead, end. *)
(* impl tells what handler is given: the http.ServerResponse the platform  *)
(* passes, or the mock the tests pass.  log records the calls that         *)
(* returned, in order.                                                     *)
(***************************************************************************)
NoHeaders == [h \in {} |-> ""]

ResImpls == {"mock", "ServerResponse"}

\* a fresh response object: a new ServerResponse has statusCode 200, the
\* tests' createMockRes() has _statusCode 0
NewRes(impl) ==
  [impl |-> impl, headers |-> NoHeaders,
   statusCode |-> IF impl = "ServerResponse" THEN 200 ELSE 0,
   body |-> <<>>, ended |-> FALSE, log |-> <<>>]

\* res.setHeader(key, value)
setHeader(rs, key, value) ==
  [rs EXCEPT
     !.headers = [h \in DOMAIN rs.headers \cup {key} |->
                    IF h = key THEN value ELSE rs.headers[h]],
     !.log = Append(rs.log, [op |-> "setHeader", name |-> key, value |-> value])]

\* the error a ServerResponse throws from writeHead once a writeHead has
\* stored the header (ERR_HTTP_HEADERS_SENT)
HeadersSentError ==
  [isError |-> TRUE, message |-> "Cannot write headers after they are sent to the client"]

\* whether res.writeHead throws: a ServerResponse on a second writeHead; the
\* mock of the tests never
writeHeadThrows(rs) ==
  /\ rs.impl = "ServerResponse"
  /\ \E k \in DOMAIN rs.log : rs.log[k].op = "writeHead"

\* res.writeHead(code, headers) when it returns: hdrs is the sequence of
\* <<name, value>> given
writeHead(rs, code, hdrs) ==
  [rs EXCEPT
     !.statusCode = code,
     !.headers = [h \in DOMAIN rs.headers \cup {hdrs[k][1] : k \in DOMAIN hdrs} |->
                    IF \E k \in DOMAIN hdrs : hdrs[k][1] = h
                    THEN hdrs[CHOOSE k \in DOMAIN hdrs : hdrs[k][1] = h][2]
                    ELSE rs.headers[h]],
     !.log = Append(rs.log, [op |-> "writeHead", code |-> code])]

\* res.end(data): data is <<>> for end() and <<json>> for end(JSON.stringify(json))
end(rs, data) ==
  [rs EXCEPT !.body = data, !.ended = TRUE, !.log = Append(rs.log, [op |-> "end"])]

(***************************************************************************)
(* index.ts helpers                                                        *)
(***************************************************************************)
\* the value on the left of || in buildExecutionMetadata:
\* Array.isArray(correlationId) ? correlationId[0] : correlationId, as <<>> when
\* it is undefined and <<string>> otherwise
CorrelationValue(corr) ==
  IF corr.t = "undefined" THEN <<>>
  ELSE IF Len(corr.items) = 0 THEN <<>> ELSE <<corr.items[1]>>

\* a buildExecutionMetadata that never reads the X-Correlation-Id header
buildExecutionMetadataIgnoringHeader(r, u) ==
  [metadata |-> [trace_id |-> RandomUUID(u),
                 timestamp |-> IsoNow,
                 service |-> SERVICE_NAME,
                 execution_id |-> RandomUUID(u + 1)],
   uuid |-> u + 2]

\* a buildExecutionMetadata that leaves out the service field
buildExecutionMetadataNoService(r, u) ==
  LET c == CorrelationValue(r.corr)
      falsy == c = <<>> \/ c = <<"">>
      traceId == IF falsy THEN RandomUUID(u) ELSE Str(c[1])
      u1 == IF falsy THEN u + 1 ELSE u
  IN [metadata |-> [trace_id |-> traceId,
                    timestamp |-> IsoNow,
                    execution_id |-> RandomUUID(u1)],
      uuid |-> u1 + 1]

\* buildExecutionMetadata(req) with u values of randomUUID() drawn so far:
\* the metadata and the number drawn afterwards
buildExecutionMetadata(r, u) ==
  LET c == CorrelationValue(r.corr)
      falsy == c = <<>> \/ c = <<"">>
      traceId == IF falsy THEN RandomUUID(u) ELSE Str(c[1])
      u1 == IF falsy THEN u + 1 ELSE u
  IN [metadata |-> [trace_id |-> traceId,
                    timestamp |-> IsoNow,
                    service |-> SERVICE_NAME,
                    execution_id |-> RandomUUID(u1)],
      uuid |-> u1 + 1]

RECURSIVE SetHeaders(_, _, _)
SetHeaders(rs, entries, k) ==
  IF k > Len(entries) THEN rs
  ELSE SetHeaders(setHeader(rs, entries[k][1], entries[k][2]), entries, k + 1)

\* an applyCors that omits the last entry, Access-Control-Max-Age
applyCorsWithoutMaxAge(rs) == SetHeaders(rs, SubSeq(CORS_HEADERS, 1, 3), 1)

\* applyCors(res)
applyCors(rs) == SetHeaders(rs, CORS_HEADERS, 1)

\* whether JSON.stringify returns for the data of a 200 agent response
DataSerializable(data) ==
  CASE "indexed_count" \in DOMAIN data -> Serializable(data.mode)
    [] "overall_score" \in DOMAIN data -> Serializable(data.agent_id)
    [] "endpoints" \in DOMAIN data ->
         /\ Serializable(data.agent_name)
         /\ Serializable(data.template_id)
         /\ Serializable(data.config_applied)
    [] OTHER -> TRUE

\* whether JSON.stringify(body) returns: only data carries values of the request
JsonSerializable(body) ==
  IF "data" \in DOMAIN body THEN DataSerializable(body.data) ELSE TRUE

\* the TypeError JSON.stringify throws on a BigInt
StringifyError == [isError |-> TRUE, message |-> "Do not know how to serialize a BigInt"]

\* sendJson(res, statusCode, body): writeHead, then end(JSON.stringify(body));
\* threw is <<>> when it returns and <<what was thrown>> when writeHead or
\* stringify throws
sendJson(rs, statusCode, body) ==
  LET rs1 == writeHead(rs, statusCode, << <<"Content-Type", "application/json">> >>)
  IN IF writeHeadThrows(rs) THEN [threw |-> <<HeadersSentError>>, res |-> rs]
     ELSE IF ~JsonSerializable(body) THEN [threw |-> <<StringifyError>>, res |-> rs1]
     ELSE [threw |-> <<>>, res |-> end(rs1, <<body>>)]

\* new URL(url, base).pathname for a raw URL of the form pathname + search
UrlPathname(u) == u.pathname

\* getRequestPath(req): req.path || new URL(req.url || '/', ...).pathname
getRequestPath(r) ==
  IF r.path # <<>> /\ r.path[1] # "" THEN r.path[1]
  ELSE IF r.url # <<>> THEN UrlPathname(r.url[1])
  ELSE UrlPathname([pathname |-> "/", search |-> ""])

\* a required-field loop that never reports a field
FirstMissingNone(body, required, k) == <<>>

RECURSIVE FirstMissing(_, _, _)
\* the first field of required, from position k on, that is not in body; <<>> if none
FirstMissing(body, required, k) ==
  IF k > Len(required) THEN <<>>
  ELSE IF ~HasProperty(body, required[k]) THEN <<required[k]>>
  ELSE FirstMissing(body, required, k + 1)

\* an unknown-field loop that reports the last unknown key instead of the first
FirstUnknownLast(keys, allowedProps, k) ==
  LET idx == {j \in k..Len(keys) : ~Includes(allowedProps, keys[j])}
  IN IF idx = {} THEN <<>>
     ELSE <<keys[CHOOSE j \in idx : \A j2 \in idx : j2 <= j]>>

RECURSIVE FirstUnknown(_, _, _)
\* the first of keys, from position k on, that allowedProps does not include
FirstUnknown(keys, allowedProps, k) ==
  IF k > Len(keys) THEN <<>>
  ELSE IF ~Includes(allowedProps, keys[k]) THEN <<keys[k]>>
  ELSE FirstUnknown(keys, allowedProps, k + 1)

\* a validateRequestBody that looks for unknown keys before required fields
validateRequestBodyUnknownFirst(body, schemaName) ==
  IF ~body.truthy \/ TypeOf(body) # "object"
  THEN <<[text |-> "Request body must be a JSON object", arg |-> ""]>>
  ELSE
    LET schema == schemas[schemaName].request
        missing == FirstMissing(body, schema.required, 1)
        unknown == FirstUnknown(ObjectKeys(body), schema.properties, 1)
    IN IF unknown # <<>>
       THEN <<[text |-> "Unknown field: ", arg |-> unknown[1]]>>
       ELSE IF missing # <<>>
       THEN <<[text |-> "Missing required field: ", arg |-> missing[1]]>>
       ELSE <<>>

\* a validateRequestBody that also rejects a required field whose value is null
validateRequestBodyRejectingNull(body, schemaName) ==
  IF ~body.truthy \/ TypeOf(body) # "object"
  THEN <<[text |-> "Request body must be a JSON object", arg |-> ""]>>
  ELSE
    LET schema == schemas[schemaName].request
        missing == FirstMissing(body, schema.required, 1)
        unknown == FirstUnknown(ObjectKeys(body), schema.properties, 1)
    IN IF missing # <<>>
       THEN <<[text |-> "Missing required field: ", arg |-> missing[1]]>>
       ELSE IF unknown # <<>>
       THEN <<[text |-> "Unknown field: ", arg |-> unknown[1]]>>
       ELSE IF \E f \in Range(schema.required) : GetField(body, f) = JsNull
       THEN <<[text |-> "Invalid value", arg |-> ""]>>
       ELSE <<>>

\* validateRequestBody(body, schemaName): <<>> for null, else <<error>>
validateRequestBody(body, schemaName) ==
  IF ~body.truthy \/ TypeOf(body) # "object"
  THEN <<[text |-> "Request body must be a JSON object", arg |-> ""]>>
  ELSE
    LET schema == schemas[schemaName].request
        missing == FirstMissing(body, schema.required, 1)
        unknown == FirstUnknown(ObjectKeys(body), schema.properties, 1)
    IN IF missing # <<>>
       THEN <<[text |-> "Missing required field: ", arg |-> missing[1]]>>
       ELSE IF unknown # <<>>
       THEN <<[text |-> "Unknown field: ", arg |-> unknown[1]]>>
       ELSE <<>>

(***************************************************************************)
(* agents/*.ts: the stub handlers                                          *)
(***************************************************************************)
\* what a getter throws: new Error('boom') or the string 'boom'
Thrown(v) == [isError |-> v.n = 1, message |-> "boom"]

\* the promise an async function returns: fulfilled with a value or rejected
\* with what its body threw
Fulfilled(value) == [settled |-> "fulfilled", value |-> <<value>>, reason |-> <<>>]

Rejected(reason) == [settled |-> "rejected", value |-> <<>>, reason |-> <<reason>>]

RECURSIVE Destructure(_, _, _)
\* const { f1, f2, f3 } = body: the fields are read in order from position k;
\* <<>> when every read returns, else <<what the first throwing getter threw>>
Destructure(body, fields, k) ==
  IF k > Len(fields) THEN <<>>
  ELSE IF GetField(body, fields[k]).t = "getter"
  THEN <<Thrown(GetField(body, fields[k]))>>
  ELSE Destructure(body, fields, k + 1)

\* a handleIndex that reports no asset indexed, whatever asset_ids is
handleIndexCountingNone(body) ==
  LET thrown == Destructure(body, <<"mode", "asset_ids", "asset_type">>, 1)
  IN IF thrown # <<>> THEN Rejected(thrown[1])
     ELSE Fulfilled([indexed_count |-> 0,
                     failed_count |-> 0,
                     mode |-> GetField(body, "mode"),
                     errors |-> <<>>])

\* handleIndex(body)
handleIndex(body) ==
  LET thrown == Destructure(body, <<"mode", "asset_ids", "asset_type">>, 1)
      asset_ids == GetField(body, "asset_ids")
      len == IF Nullish(asset_ids) THEN JsUndefined ELSE JsLength(asset_ids)
      startCount == IF Nullish(len) THEN 0 ELSE len.n
  IN IF thrown # <<>> THEN Rejected(thrown[1])
     ELSE Fulfilled([indexed_count |-> startCount,
                     failed_count |-> 0,
                     mode |-> GetField(body, "mode"),
                     errors |-> <<>>])

\* a handleReputation that counts the signals recorded so far
handleReputationCounting(body) ==
  LET thrown == Destructure(body, <<"agent_id", "operation", "signal">>, 1)
      recorded == {k \in DOMAIN history :
                     GetField(history[k].req.body, "operation") = JsRecord}
  IN IF thrown # <<>> THEN Rejected(thrown[1])
     ELSE Fulfilled([agent_id |-> GetField(body, "agent_id"),
                     overall_score |-> 0,
                     category_scores |->
                       [reliability |-> 0, accuracy |-> 0, latency |-> 0, compliance |-> 0],
                     signal_count |-> Cardinality(recorded),
                     last_updated |-> IsoNow])

\* handleReputation(body)
handleReputation(body) ==
  LET thrown == Destructure(body, <<"agent_id", "operation", "signal">>, 1)
  IN IF thrown # <<>> THEN Rejected(thrown[1])
     ELSE Fulfilled([agent_id |-> GetField(body, "agent_id"),
                     overall_score |-> 0,
                     category_scores |->
                       [reliability |-> 0, accuracy |-> 0, latency |-> 0, compliance |-> 0],
                     signal_count |-> 0,
                     last_updated |-> IsoNow])

\* a value of the environment variable FUNCTION_BASE_URL
CustomBaseUrl == "https://example.test/registry-agents"

\* process.env.FUNCTION_BASE_URL when the module is loaded: <<>> when unset
EnvValues == {<<>>, <<CustomBaseUrl>>}

\* BASE_URL: process.env.FUNCTION_BASE_URL || the default
BASE_URL ==
  IF env # <<>> /\ env[1] # "" THEN env[1]
  ELSE "https://us-central1-agentics-dev.cloudfunctions.net/registry-agents"

\* a handleBootstrap that gives every instance the same agent_id
handleBootstrapFixedId(body, u) ==
  LET thrown == Destructure(body, <<"template_id", "agent_name", "config_overrides">>, 1)
      config_overrides == GetField(body, "config_overrides")
  IN IF thrown # <<>> THEN Rejected(thrown[1])
     ELSE Fulfilled(
            [agent_id |-> RandomUUID(0),
             agent_name |-> GetField(body, "agent_name"),
             template_id |-> GetField(body, "template_id"),
             status |-> "created",
             config_applied |-> IF config_overrides.t \in {"undefined", "null"}
                                THEN JsEmptyObject ELSE config_overrides,
             endpoints |-> [health |-> [text |-> BASE_URL, arg |-> "/health"],
                            invoke |-> [text |-> BASE_URL,
                                        arg |-> "/v1/registry/bootstrap"]]])

\* handleBootstrap(body), randomUUID() returning its u-th value
handleBootstrap(body, u) ==
  LET thrown == Destructure(body, <<"template_id", "agent_name", "config_overrides">>, 1)
      config_overrides == GetField(body, "config_overrides")
  IN IF thrown # <<>> THEN Rejected(thrown[1])
     ELSE Fulfilled(
            [agent_id |-> RandomUUID(u),
             agent_name |-> GetField(body, "agent_name"),
             template_id |-> GetField(body, "template_id"),
             status |-> "created",
             config_applied |-> IF config_overrides.t \in {"undefined", "null"}
                                THEN JsEmptyObject ELSE config_overrides,
             endpoints |-> [health |-> [text |-> BASE_URL, arg |-> "/health"],
                            invoke |-> [text |-> BASE_URL,
                                        arg |-> "/v1/registry/bootstrap"]]])

(***************************************************************************)
(* index.ts route handlers.  Each yields an outcome                        *)
(*   [pc, res, frame, calls, uuid]                                         *)
(* pc: "done" (it returned), "awaiting" (suspended at an await),           *)
(* "rejected" (it threw, error being what was thrown);                     *)
(* frame: the locals kept across the await; calls: the functions entered.  *)
(***************************************************************************)
Outcome(p, rs, fr, cl, u) == [pc |-> p, res |-> rs, frame |-> fr, calls |-> cl, uuid |-> u]

\* the outcome of a function that throws err
Throw(err, rs, cl, u) ==
  [pc |-> "rejected", res |-> rs, frame |-> <<>>, calls |-> cl, uuid |-> u, error |-> err]

\* the outcome of a function whose last statement is the sendJson call that
\* gave sent: it returns, or what sendJson threw propagates
ReturnAfter(sent, cl, u) ==
  IF sent.threw = <<>> THEN Outcome("done", sent.res, <<>>, cl, u)
  ELSE Throw(sent.threw[1], sent.res, cl, u)

\* a routing entry under another layer name
RoutingCompletedMisnamed == [layer |-> "ROUTING", status |-> "completed"]

\* the entry { layer: 'AGENT_ROUTING', status: 'completed' }
RoutingCompleted == [layer |-> "AGENT_ROUTING", status |-> "completed"]

\* a 404 routing entry marked completed
RoutingFailedAsCompleted == [layer |-> "AGENT_ROUTING", status |-> "completed"]

\* the entry { layer: 'AGENT_ROUTING', status: 'failed' } of the 404 response
RoutingFailed == [layer |-> "AGENT_ROUTING", status |-> "failed"]

AgentFailed(agentName) ==
  [layer |-> AgentLayerName(agentName), status |-> "failed", duration_ms |-> 0]

\* a handleHealth that lists the agents in another order
handleHealthReordered(r, rs, u, cl) ==
  LET m == buildExecutionMetadata(r, u)
      sent == sendJson(rs, 200,
                [status |-> "healthy",
                 agents |-> <<"bootstrap", "index", "reputation">>,
                 execution_metadata |-> m.metadata,
                 layers_executed |-> <<RoutingCompleted>>])
  IN Outcome("done", sent.res, <<>>,
             cl \o <<"handleHealth", "buildExecutionMetadata", "sendJson">>, m.uuid)

\* handleHealth(req, res)
handleHealth(r, rs, u, cl) ==
  LET m == buildExecutionMetadata(r, u)
      sent == sendJson(rs, 200,
                [status |-> "healthy",
                 agents |-> HEALTH_AGENTS,
                 execution_metadata |-> m.metadata,
                 layers_executed |-> <<RoutingCompleted>>])
  IN Outcome("done", sent.res, <<>>,
             cl \o <<"handleHealth", "buildExecutionMetadata", "sendJson">>, m.uuid)

\* handleContracts(req, res)
handleContracts(r, rs, u, cl) ==
  LET m == buildExecutionMetadata(r, u)
      sent == sendJson(rs, 200,
                [contracts |-> schemas,
                 execution_metadata |-> m.metadata,
                 layers_executed |-> <<RoutingCompleted>>])
  IN Outcome("done", sent.res, <<>>,
             cl \o <<"handleContracts", "buildExecutionMetadata", "sendJson">>, m.uuid)

\* a routeAgent whose first two cases call each other's stub
routeAgentSwapped(agentName, body, u) ==
  CASE agentName = "index" ->
         [pending |-> handleReputation(body), uuid |-> u,
          calls |-> <<"routeAgent", "handleReputation">>]
    [] agentName = "reputation" ->
         [pending |-> handleIndex(body), uuid |-> u,
          calls |-> <<"routeAgent", "handleIndex">>]
    [] agentName = "bootstrap" ->
         LET p == handleBootstrap(body, u)
         IN [pending |-> p, uuid |-> IF p.settled = "fulfilled" THEN u + 1 ELSE u,
             calls |-> <<"routeAgent", "handleBootstrap">>]

\* routeAgent(agentName, body) up to the await of the stub handler's promise:
\* the stub has run and its promise is pending; handleBootstrap has drawn a
\* UUID unless it threw before
routeAgent(agentName, body, u) ==
  CASE agentName = "index" ->
         [pending |-> handleIndex(body), uuid |-> u,
          calls |-> <<"routeAgent", "handleIndex">>]
    [] agentName = "reputation" ->
         [pending |-> handleReputation(body), uuid |-> u,
          calls |-> <<"routeAgent", "handleReputation">>]
    [] agentName = "bootstrap" ->
         LET p == handleBootstrap(body, u)
         IN [pending |-> p, uuid |-> IF p.settled = "fulfilled" THEN u + 1 ELSE u,
             calls |-> <<"routeAgent", "handleBootstrap">>]

\* a method check that lets GET through as well
MethodIsPostOrGet(r) == r.method \in {"POST", "GET"}

\* the negation of the test req.method !== 'POST'
MethodIsPost(r) == r.method = "POST"

\* the TypeError handleAgentRequest throws for an agentName that is no string:
\* CONTRACT_SCHEMAS[agentName] is undefined, agentName.toUpperCase no function
AgentNameTypeError == [isError |-> TRUE, message |-> "TypeError"]

\* handleAgentRequest(agentName, req, res) up to its first suspension
handleAgentRequest(agentName, r, rs, u, cl) ==
  LET m == buildExecutionMetadata(r, u)
      layers == <<RoutingCompleted>>
      cl1 == cl \o <<"handleAgentRequest", "buildExecutionMetadata">>
  IN IF ~MethodIsPost(r)
     THEN Outcome("done",
                  sendJson(rs, 405,
                    [error |-> [text |-> "Method not allowed. Use POST.", arg |-> ""],
                     execution_metadata |-> m.metadata,
                     layers_executed |-> layers]).res,
                  <<>>, Append(cl1, "sendJson"), m.uuid)
     ELSE IF agentName = InheritedMember
     THEN \* CONTRACT_SCHEMAS[agentName] is undefined and agentName.toUpperCase is
          \* no function: a TypeError outside the try block
          Throw(AgentNameTypeError, rs, Append(cl1, "validateRequestBody"), m.uuid)
     ELSE
       LET validationError == validateRequestBody(r.body, agentName)
           cl2 == Append(cl1, "validateRequestBody")
       IN IF validationError # <<>>
          THEN Outcome("done",
                       sendJson(rs, 400,
                         [error |-> validationError[1],
                          execution_metadata |-> m.metadata,
                          layers_executed |-> Append(layers, AgentFailed(agentName))]).res,
                       <<>>, Append(cl2, "sendJson"), m.uuid)
          ELSE
            LET pending == routeAgent(agentName, r.body, m.uuid)
            IN Outcome("awaiting", rs,
                       <<[at |-> "routeAgent",
                          agentName |-> agentName, metadata |-> m.metadata,
                          layers |-> layers, pending |-> pending.pending]>>,
                       cl2 \o pending.calls, pending.uuid)

\* a catch block that answers with the fallback message whatever was thrown
handleAgentRequestCatchGeneric(fr, layers, rs, cl, u, err) ==
  ReturnAfter(sendJson(rs, 500,
                [error |-> [text |-> "Internal agent error", arg |-> ""],
                 execution_metadata |-> fr.metadata,
                 layers_executed |-> Append(layers, AgentFailed(fr.agentName))]),
              Append(cl, "sendJson"), u)

\* the catch block of handleAgentRequest with err caught: the failed entry is
\* pushed on the layers array as the try block left it, then 500 is sent;
\* what this sendJson throws leaves handleAgentRequest
handleAgentRequestCatch(fr, layers, rs, cl, u, err) ==
  LET message == IF err.isError
                 THEN [text |-> err.message, arg |-> ""]
                 ELSE [text |-> "Internal agent error", arg |-> ""]
      layers2 == Append(layers, AgentFailed(fr.agentName))
  IN ReturnAfter(sendJson(rs, 500,
                   [error |-> message,
                    execution_metadata |-> fr.metadata,
                    layers_executed |-> layers2]),
                 Append(cl, "sendJson"), u)

\* a continuation that answers 200 without recording the agent layer
handleAgentRequestResumeWithoutLayer(fr, rs, cl, u) ==
  IF fr.pending.settled = "rejected"
  THEN handleAgentRequestCatch(fr, fr.layers, rs, cl, u, fr.pending.reason[1])
  ELSE Outcome("done",
               sendJson(rs, 200,
                 [data |-> fr.pending.value[1].data,
                  execution_metadata |-> fr.metadata,
                  layers_executed |-> fr.layers]).res,
               <<>>, Append(cl, "sendJson"), u)

\* a handleAgentRequest that keeps the metadata of the request being served in
\* one module-level variable, overwritten by each new request: after the await
\* it answers with the metadata of the latest request still in flight
handleAgentRequestResumeSharedMetadata(fr, rs, cl, u) ==
  LET inFlight == {j \in Slots : frame[j] # <<>> /\ frame[j][1].at # "handler"}
      latest == CHOOSE j \in inFlight :
                  \A k \in inFlight :
                    frame[k][1].metadata.execution_id.k <= frame[j][1].metadata.execution_id.k
      shared == [fr EXCEPT !.metadata = frame[latest][1].metadata]
  IN IF shared.pending.settled = "rejected"
     THEN handleAgentRequestCatch(shared, shared.layers, rs, cl, u, shared.pending.reason[1])
     ELSE
       LET result == shared.pending.value[1]
           layers1 == Append(shared.layers,
                        [layer |-> result.agent_layer, status |-> "completed",
                         duration_ms |-> result.duration_ms])
           sent == sendJson(rs, 200,
                     [data |-> result.data,
                      execution_metadata |-> shared.metadata,
                      layers_executed |-> layers1])
       IN IF sent.threw = <<>>
          THEN Outcome("done", sent.res, <<>>, Append(cl, "sendJson"), u)
          ELSE handleAgentRequestCatch(shared, layers1, sent.res, Append(cl, "sendJson"), u,
                                       sent.threw[1])

\* routeAgent after the stub's promise settled, fr being the frame suspended at
\* its await: rejected, routeAgent rejects with the same reason; fulfilled, it
\* reads the clock and returns its result with duration_ms = d
routeAgentResume(fr, d) ==
  IF fr.pending.settled = "rejected"
  THEN Rejected(fr.pending.reason[1])
  ELSE Fulfilled([data |-> fr.pending.value[1],
                  agent_layer |-> AgentLayerName(fr.agentName),
                  duration_ms |-> d])

\* handleAgentRequest after routeAgent's promise settled, fr.pending being that
\* promise: rejected, the catch block runs; fulfilled, the try block completes,
\* or the catch block runs when sendJson throws.  "done": handleAgentRequest
\* has returned; "rejected": the catch block threw
handleAgentRequestResume(fr, rs, cl, u) ==
  IF fr.pending.settled = "rejected"
  THEN handleAgentRequestCatch(fr, fr.layers, rs, cl, u, fr.pending.reason[1])
  ELSE
    LET result == fr.pending.value[1]
        layers1 == Append(fr.layers,
                     [layer |-> result.agent_layer, status |-> "completed",
                      duration_ms |-> result.duration_ms])
        sent == sendJson(rs, 200,
                  [data |-> result.data,
                   execution_metadata |-> fr.metadata,
                   layers_executed |-> layers1])
    IN IF sent.threw = <<>>
       THEN Outcome("done", sent.res, <<>>, Append(cl, "sendJson"), u)
       ELSE handleAgentRequestCatch(fr, layers1, sent.res, Append(cl, "sendJson"), u,
                                    sent.threw[1])

\* await handleAgentRequest(agentName, req, res) in handler, o being how far
\* handleAgentRequest has run: handler is suspended in every case, on the frame
\* of handleAgentRequest while that is itself suspended, else on its settled
\* promise
AwaitHandleAgentRequest(o) ==
  IF o.pc = "awaiting" THEN o
  ELSE Outcome("awaiting", o.res,
               <<[at |-> "handler",
                  pending |-> IF o.pc = "done" THEN Fulfilled(JsUndefined)
                              ELSE Rejected(o.error)]>>,
               o.calls, o.uuid)

\* the body of the 404 response
NotFoundBody(path, metadata) ==
  [error |-> [text |-> "Route not found: ", arg |-> path],
   available_routes |-> <<"/health", "/contracts">> \o
                        [k \in DOMAIN AGENT_ROUTES |-> AGENT_ROUTES[k][1]],
   execution_metadata |-> metadata,
   layers_executed |-> <<RoutingFailed>>]

\* handler after the preflight check: path resolution and routing
handlerRoute(r, rs, u, cl) ==
  LET path == getRequestPath(r)
      cl1 == Append(cl, "getRequestPath")
      agentName == AgentRouteLookup(path)
  IN IF path = "/health" \/ path = "/"
     THEN handleHealth(r, rs, u, cl1)
     ELSE IF path = "/contracts"
     THEN handleContracts(r, rs, u, cl1)
     ELSE IF agentName # "undefined"
     THEN AwaitHandleAgentRequest(handleAgentRequest(agentName, r, rs, u, cl1))
     ELSE
       LET m == buildExecutionMetadata(r, u)
       IN Outcome("done", sendJson(rs, 404, NotFoundBody(path, m.metadata)).res,
                  <<>>, cl1 \o <<"buildExecutionMetadata", "sendJson">>, m.uuid)

\* a handler that routes the preflight request like any other
handlerWithoutPreflight(r, res0, u) == handlerRoute(r, applyCors(res0), u, <<"applyCors">>)

\* handler(req, res) up to its first suspension, res0 being the response
\* object it is given, with u values of randomUUID() drawn before
handler(r, res0, u) ==
  LET rs == applyCors(res0)
      cl == <<"applyCors">>
  IN IF r.method = "OPTIONS"
     THEN Outcome("done", end(writeHead(rs, 204, <<>>), <<>>), <<>>, cl, u)
     ELSE handlerRoute(r, rs, u, cl)

(***************************************************************************)
(* The state machine.  Per invocation slot i: pc[i], the request req[i]    *)
(* (<<>> before one arrives), the response object res[i], the suspended    *)
(* frame[i] (at names the function whose continuation runs next, pending   *)
(* the promise it awaits) and the trace calls[i]; pc[i] is "awaiting"      *)
(* while the promise handler returned is pending, "done" once it is        *)
(* fulfilled and "rejected" once it is rejected; queue is the microtask    *)
(* queue, first in first out; uuid counts the values crypto                *)
(* .randomUUID() has returned in the process; env is FUNCTION_BASE_URL as  *)
(* the module was loaded with; history lists the exchanges completed, in   *)
(* order, as the caller saw them.                                          *)
(***************************************************************************)
\* the invocation slots as they are before a request arrives, res[i] being the
\* fresh response object the next invocation in slot i is given
IdleSlots(impl) ==
  /\ pc = [i \in Slots |-> "idle"]
  /\ req = [i \in Slots |-> <<>>]
  /\ res = [i \in Slots |-> NewRes(impl)]
  /\ frame = [i \in Slots |-> <<>>]
  /\ calls = [i \in Slots |-> <<>>]
  /\ uuid = 0
  /\ history = <<>>
  /\ queue = <<>>

\* no SDK client has been constructed
NoClient ==
  [constructed |-> FALSE, headers |-> [h \in {} |-> [text |-> "", arg |-> ""]],
   apiToken |-> <<>>, executionContext |-> <<>>, sets |-> 0,
   pending |-> <<>>, sent |-> <<>>]

\* the module loaded with FUNCTION_BASE_URL unset, handler being given the
\* tests' mock responses or the platform's ServerResponse objects
Init ==
  /\ \E impl \in ResImpls : IdleSlots(impl)
  /\ env = <<>>
  /\ sdk = NoClient
  /\ schemas = CONTRACT_SCHEMAS

\* a handler that, on a POST to an agent route, makes every declared field of
\* that agent's request schema required from then on
ReceiveTighteningSchema(i, r) ==
  /\ pc[i] = "idle"
  /\ LET o == handler(r, res[i], uuid)
         a == AgentRouteLookup(getRequestPath(r))
     IN /\ pc' = [pc EXCEPT ![i] = o.pc]
        /\ req' = [req EXCEPT ![i] = <<r>>]
        /\ res' = [res EXCEPT ![i] = o.res]
        /\ frame' = [frame EXCEPT ![i] = o.frame]
        /\ calls' = [calls EXCEPT ![i] = o.calls]
        /\ uuid' = o.uuid
        /\ queue' = IF o.pc = "awaiting" THEN Append(queue, i) ELSE queue
        /\ schemas' = IF r.method = "POST" /\ a \in DOMAIN schemas
                      THEN [schemas EXCEPT ![a].request.required =
                                             schemas[a].request.properties]
                      ELSE schemas
        /\ UNCHANGED <<env, history, sdk>>

\* handler(req, res) is called: it runs to its first suspension, where its
\* continuation joins the microtask queue, or to its end
Receive(i, r) ==
  /\ pc[i] = "idle"
  /\ LET o == handler(r, res[i], uuid)
     IN /\ pc' = [pc EXCEPT ![i] = o.pc]
        /\ req' = [req EXCEPT ![i] = <<r>>]
        /\ res' = [res EXCEPT ![i] = o.res]
        /\ frame' = [frame EXCEPT ![i] = o.frame]
        /\ calls' = [calls EXCEPT ![i] = o.calls]
        /\ uuid' = o.uuid
        /\ queue' = IF o.pc = "awaiting" THEN Append(queue, i) ELSE queue
        /\ UNCHANGED <<env, history, sdk, schemas>>

\* the invocation in slot i is suspended in the function named and its
\* continuation is the first of the microtask queue
NextInQueue(i, at) ==
  /\ pc[i] = "awaiting"
  /\ queue # <<>>
  /\ Head(queue) = i
  /\ frame[i][1].at = at

\* the continuation of routeAgent runs: the duration is fixed and routeAgent's
\* promise settles; the continuation of handleAgentRequest joins the queue
ResumeRouteAgent(i) ==
  /\ NextInQueue(i, "routeAgent")
  /\ \E d \in 0..MaxDuration :
       frame' = [frame EXCEPT
                   ![i] = <<[frame[i][1] EXCEPT
                               !.at = "handleAgentRequest",
                               !.pending = routeAgentResume(frame[i][1], d)]>>]
  /\ queue' = Append(Tail(queue), i)
  /\ UNCHANGED <<pc, req, res, calls, uuid, env, history, sdk, schemas>>

\* the continuation of handleAgentRequest runs: the response is written and
\* handleAgentRequest returns; the continuation of handler joins the queue
ResumeHandleAgentRequest(i) ==
  /\ NextInQueue(i, "handleAgentRequest")
  /\ LET o == AwaitHandleAgentRequest(
                handleAgentRequestResume(frame[i][1], res[i], calls[i], uuid))
     IN /\ res' = [res EXCEPT ![i] = o.res]
        /\ frame' = [frame EXCEPT ![i] = o.frame]
        /\ calls' = [calls EXCEPT ![i] = o.calls]
        /\ uuid' = o.uuid
  /\ queue' = Append(Tail(queue), i)
  /\ UNCHANGED <<pc, req, env, history, sdk, schemas>>

\* the continuation of handler runs: handler returns or rethrows, and the
\* promise it returned settles
ResumeHandler(i) ==
  /\ NextInQueue(i, "handler")
  /\ pc' = [pc EXCEPT ![i] = IF frame[i][1].pending.settled = "fulfilled"
                             THEN "done" ELSE "rejected"]
  /\ frame' = [frame EXCEPT ![i] = <<>>]
  /\ queue' = Tail(queue)
  /\ UNCHANGED <<req, res, calls, uuid, env, history, sdk, schemas>>

\* one turn of the microtask queue
Resume(i) == ResumeRouteAgent(i) \/ ResumeHandleAgentRequest(i) \/ ResumeHandler(i)

\* a request arrives: every method on every combination of path field and raw URL
ReceiveRouting(i) ==
  /\ pc[i] = "idle"
  /\ \E m \in Methods,
        p \in {<<>>} \cup {<<x>> : x \in PathFields},
        u \in {<<>>} \cup
              {<<[pathname |-> x, search |-> q]>> : x \in SlashPaths, q \in Searches},
        b \in {UndefinedBody, SampleIndexBody} :
       Receive(i, Request(m, p, u, b, NoCorr))

\* a request arrives: every method on every recognised path with every
\* correlation header
ReceiveHeader(i) ==
  /\ pc[i] = "idle"
  /\ \E m \in Methods, p \in CanonicalPaths \cup {"/", "/index"}, c \in Corrs :
       Receive(i, MockReq(m, p, SampleIndexBody, c))

\* a request arrives: every method on every agent route with every body that is
\* no object literal
ReceiveNonObject(i) ==
  /\ pc[i] = "idle"
  /\ \E m \in Methods, k \in DOMAIN AGENT_ROUTES, b \in NonObjectBodies :
       Receive(i, MockReq(m, AGENT_ROUTES[k][1], b, NoCorr))

\* the methods tried with every object literal: POST, and GET for the methods
\* handleAgentRequest turns away before it reads the body
ObjectMethods == {"POST", "GET"}

\* a request arrives: a POST or a GET on every agent route with every object
\* literal of at most MaxKeys keys, in every key order, among the fields the
\* agent's request schema declares and the unknown fields
ReceiveObject(i) ==
  /\ pc[i] = "idle"
  /\ \E m \in ObjectMethods, k \in DOMAIN AGENT_ROUTES :
       LET declared == Range(CONTRACT_SCHEMAS[AGENT_ROUTES[k][2]].request.properties)
       IN \E keys \in InjSeqsUpTo(declared \cup UnknownFields, MaxKeys) :
            \E vals \in [Range(keys) ->
                             FieldValues \cup {JsTrue, JsLengthObject, JsNullLengthObject}] :
              /\ \A f \in Range(keys) : vals[f] \in ValuesFor(f, declared)
              /\ Receive(i, MockReq(m, AGENT_ROUTES[k][1], ObjectBody(keys, vals), NoCorr))

\* one invocation at a time, over every request tried
Next ==
  \/ ReceiveRouting(1)
  \/ ReceiveHeader(1)
  \/ ReceiveNonObject(1)
  \/ ReceiveObject(1)
  \/ Resume(1)

Spec == Init /\ [][Next]_vars

(***************************************************************************)
(* Sequences of requests: the same handler invoked again and again, each   *)
(* request delivered once the microtask queue is empty, the module loaded  *)
(* under any value of FUNCTION_BASE_URL.                                   *)
(***************************************************************************)
\* reputation requests for one agent_id: a query, and a record with and without
\* a signal
ReputationBodies ==
  {ObjectBody(<<"agent_id", "operation">>,
              [k \in {"agent_id", "operation"} |->
                 IF k = "agent_id" THEN JsString ELSE op]) : op \in {JsQuery, JsRecord}}
  \cup
  {ObjectBody(<<"agent_id", "operation", "signal">>,
              [k \in {"agent_id", "operation", "signal"} |->
                 CASE k = "agent_id" -> JsString
                   [] k = "operation" -> JsRecord
                   [] k = "signal" -> JsSignal])}

\* bootstrap requests of one template and name: without config_overrides, with
\* an object and with null
BootstrapBodies ==
  {ObjectBody(<<"template_id", "agent_name">>,
              [k \in {"template_id", "agent_name"} |-> JsString])}
  \cup
  {ObjectBody(<<"template_id", "agent_name", "config_overrides">>,
              [k \in {"template_id", "agent_name", "config_overrides"} |->
                 IF k = "config_overrides" THEN c ELSE JsString]) : c \in {JsSignal, JsNull}}

\* the module is deployed under some FUNCTION_BASE_URL
InitSeq ==
  /\ IdleSlots("ServerResponse")
  /\ env \in EnvValues
  /\ sdk = NoClient
  /\ schemas = CONTRACT_SCHEMAS

\* the exchange slot i completed: the request, and the status, execution
\* metadata and data received
Exchange(i) ==
  LET sent == res[i].ended /\ res[i].body # <<>>
  IN [req |-> req[i][1],
      status |-> res[i].statusCode,
      metadata |-> IF sent /\ "execution_metadata" \in DOMAIN res[i].body[1]
                   THEN <<res[i].body[1].execution_metadata>> ELSE <<>>,
      data |-> IF sent /\ "data" \in DOMAIN res[i].body[1]
               THEN <<res[i].body[1].data>> ELSE <<>>]

\* a reputation or bootstrap request arrives while fewer than MaxRequests
\* requests have arrived; the platform delivers it in a task of its own, so no
\* continuation is waiting in the microtask queue; it is taken up in the first
\* idle slot
ReceiveSeq(i) ==
  /\ pc[i] = "idle"
  /\ queue = <<>>
  /\ \A j \in Slots : j < i => pc[j] # "idle"
  /\ Len(history) + Cardinality({j \in Slots : pc[j] # "idle"}) < MaxRequests
  /\ \/ \E b \in ReputationBodies :
          Receive(i, MockReq("POST", "/v1/registry/reputation", b, NoCorr))
     \/ \E b \in BootstrapBodies :
          Receive(i, MockReq("POST", "/v1/registry/bootstrap", b, NoCorr))

\* handler's promise has settled and the response was read: the invocation is
\* over, the process serves on
Release(i) ==
  /\ pc[i] \in {"done", "rejected"}
  /\ history' = Append(history, Exchange(i))
  /\ pc' = [pc EXCEPT ![i] = "idle"]
  /\ req' = [req EXCEPT ![i] = <<>>]
  /\ res' = [res EXCEPT ![i] = NewRes(res[i].impl)]
  /\ frame' = [frame EXCEPT ![i] = <<>>]
  /\ calls' = [calls EXCEPT ![i] = <<>>]
  /\ UNCHANGED <<uuid, env, sdk, schemas, queue>>

NextSeq == \E i \in Slots : ReceiveSeq(i) \/ Resume(i) \/ Release(i)

SpecSeq == InitSeq /\ [][NextSeq]_vars

(***************************************************************************)
(* Sequences that mix requests for the contracts with agent requests that  *)
(* pass validation and agent requests that fail it, up to two invocations  *)
(* in flight, a call being possible between any two turns of the microtask *)
(* queue.                                                                  *)
(***************************************************************************)
\* an index body without its required field mode
IndexBodyWithoutMode ==
  ObjectBody(<<"asset_ids">>, [k \in {"asset_ids"} |-> JsArray2])

\* an index body with a field the schema does not declare
IndexBodyWithUnknown ==
  ObjectBody(<<"mode", "bogus">>,
             [k \in {"mode", "bogus"} |-> IF k = "mode" THEN JsString ELSE JsTrue])

\* a reputation query
ReputationQueryBody ==
  ObjectBody(<<"agent_id", "operation">>,
             [k \in {"agent_id", "operation"} |->
                IF k = "agent_id" THEN JsString ELSE JsQuery])

\* a bootstrap body of its two required fields
BootstrapRequiredBody ==
  ObjectBody(<<"template_id", "agent_name">>,
             [k \in {"template_id", "agent_name"} |-> JsString])

\* the agent requests of the mixed sequences: path and body
MixedAgentRequests ==
  {<<"/v1/registry/index", SampleIndexBody>>,
   <<"/v1/registry/index", IndexBodyWithoutMode>>,
   <<"/v1/registry/index", IndexBodyWithUnknown>>,
   <<"/v1/registry/reputation", ReputationQueryBody>>,
   <<"/v1/registry/bootstrap", BootstrapRequiredBody>>}

\* GET /contracts or one of the agent requests arrives while fewer than
\* MaxRequests requests have arrived; it is taken up in the first idle slot
ReceiveMixed(i) ==
  /\ pc[i] = "idle"
  /\ \A j \in Slots : j < i => pc[j] # "idle"
  /\ Len(history) + Cardinality({j \in Slots : pc[j] # "idle"}) < MaxRequests
  /\ \/ Receive(i, MockReq("GET", "/contracts", UndefinedBody, NoCorr))
     \/ \E q \in MixedAgentRequests :
          Receive(i, MockReq("POST", q[1], q[2], NoCorr))

NextMixed == \E i \in Slots : ReceiveMixed(i) \/ Resume(i) \/ Release(i)

SpecMixed == Init /\ [][NextMixed]_vars

(***************************************************************************)
(* packages/sdk/src/index.ts: LLMRegistryClient.  A header value is a      *)
(* template string [text, arg]; a header map is a function from header     *)
(* names to values.  Only the headers the client's code sets are kept, not *)
(* those axios adds of its own (Accept, User-Agent).                       *)
(* sdk is the client: whether it was constructed, the headers of its axios *)
(* instance, its executionContext (<<>> when undefined), the number of     *)
(* setExecutionContext calls made, the requests issued whose interceptor   *)
(* has not run yet, in order, and the requests handed to the transport.    *)
(***************************************************************************)
HeaderValue(x) == [text |-> x, arg |-> ""]

NoHeaderMap == [h \in {} |-> HeaderValue("")]

OneHeader(name, value) == [h \in {name} |-> value]

\* the object spread { ...a, ...b }
MergeHeaders(a, b) ==
  [h \in DOMAIN a \cup DOMAIN b |-> IF h \in DOMAIN b THEN b[h] ELSE a[h]]

\* execution contexts a caller sets
CtxOne == [executionId |-> "exec-001", parentSpanId |-> "span-001"]
CtxTwo == [executionId |-> "exec-002", parentSpanId |-> "span-002"]
Contexts == {CtxOne, CtxTwo}

\* config.apiToken: <<>> when not given
ApiTokens == {<<>>, <<"your-api-token">>}

\* config.axiosConfig.headers: <<>> when axiosConfig has no headers key
AxiosConfigHeaders ==
  {<<>>,
   <<NoHeaderMap>>,
   <<OneHeader("X-Custom", HeaderValue("1"))>>,
   <<OneHeader("Authorization", HeaderValue("Basic abc"))>>}

\* the constructor's argument
LLMRegistryConfig(apiToken, executionContext, axiosHeaders) ==
  [apiToken |-> apiToken, executionContext |-> executionContext,
   axiosConfig |-> [headers |-> axiosHeaders]]

\* the headers of the object given to axios.create: the headers key built by
\* the constructor, replaced by axiosConfig's own headers key when it has one,
\* since ...axiosConfig is spread after it
CreateHeaders(config) ==
  LET ownHeaders == config.axiosConfig.headers
      authorization ==
        IF config.apiToken # <<>> /\ config.apiToken[1] # ""
        THEN OneHeader("Authorization", [text |-> "Bearer ", arg |-> config.apiToken[1]])
        ELSE NoHeaderMap
      built ==
        MergeHeaders(
          MergeHeaders(OneHeader("Content-Type", HeaderValue("application/json")),
                       authorization),
          IF ownHeaders # <<>> THEN ownHeaders[1] ELSE NoHeaderMap)
  IN IF ownHeaders # <<>> THEN ownHeaders[1] ELSE built

\* new LLMRegistryClient(config); apiToken notes the token the caller configured
NewClient(config) ==
  [constructed |-> TRUE, headers |-> CreateHeaders(config),
   apiToken |-> config.apiToken, executionContext |-> config.executionContext, sets |-> 0,
   pending |-> <<>>, sent |-> <<>>]

\* the API methods: the axios call each makes and the headers it passes
ApiMethods ==
  <<[name |-> "listModels", method |-> "get", url |-> "/api/v1/models",
     headers |-> NoHeaderMap],
    [name |-> "getModel", method |-> "get", url |-> "/api/v1/models/:modelId",
     headers |-> NoHeaderMap],
    [name |-> "createModel", method |-> "post", url |-> "/api/v1/models",
     headers |-> NoHeaderMap],
    [name |-> "updateModel", method |-> "patch", url |-> "/api/v1/models/:modelId",
     headers |-> NoHeaderMap],
    [name |-> "deleteModel", method |-> "delete", url |-> "/api/v1/models/:modelId",
     headers |-> NoHeaderMap],
    [name |-> "searchModels", method |-> "get", url |-> "/api/v1/models/search",
     headers |-> NoHeaderMap],
    [name |-> "listAssets", method |-> "get", url |-> "/api/v1/models/:modelId/assets",
     headers |-> NoHeaderMap],
    [name |-> "getAsset", method |-> "get",
     url |-> "/api/v1/models/:modelId/assets/:assetId", headers |-> NoHeaderMap],
    [name |-> "uploadAsset", method |-> "post", url |-> "/api/v1/models/:modelId/assets",
     headers |-> OneHeader("Content-Type", HeaderValue("multipart/form-data"))],
    [name |-> "downloadAsset", method |-> "get",
     url |-> "/api/v1/models/:modelId/assets/:assetId/download", headers |-> NoHeaderMap],
    [name |-> "deleteAsset", method |-> "delete",
     url |-> "/api/v1/models/:modelId/assets/:assetId", headers |-> NoHeaderMap],
    [name |-> "health", method |-> "get", url |-> "/health", headers |-> NoHeaderMap],
    [name |-> "version", method |-> "get", url |-> "/version", headers |-> NoHeaderMap]>>

\* this.client.get/post/patch/delete(url, ...) up to the first step of axios's
\* promise chain: the request config merged with the instance's headers;
\* calledUnder notes the executionContext at the time of the call and
\* calledAfterSet whether setExecutionContext had been called by then
IssueRequest(client, api) ==
  [name |-> api.name, method |-> api.method, url |-> api.url,
   headers |-> MergeHeaders(client.headers, api.headers),
   calledUnder |-> client.executionContext,
   calledAfterSet |-> client.sets > 0]

\* the request interceptor, this.executionContext being executionContext when
\* it runs
interceptor(reqConfig, executionContext) ==
  IF executionContext # <<>>
  THEN [reqConfig EXCEPT
          !.headers =
             MergeHeaders(
               MergeHeaders(@, OneHeader("X-Execution-Id",
                                         HeaderValue(executionContext[1].executionId))),
               OneHeader("X-Parent-Span-Id",
                         HeaderValue(executionContext[1].parentSpanId)))]
  ELSE reqConfig

\* a caller constructs the client
SdkConstruct ==
  /\ ~sdk.constructed
  /\ \E t \in ApiTokens, c \in {<<>>, <<CtxOne>>}, h \in AxiosConfigHeaders :
       sdk' = NewClient(LLMRegistryConfig(t, c, h))
  /\ UNCHANGED fnVars

\* a caller calls an API method: it runs to its await, the request's
\* interceptor is queued as a microtask
SdkCall ==
  /\ sdk.constructed
  /\ Len(sdk.pending) + Len(sdk.sent) < MaxCalls
  /\ \E k \in DOMAIN ApiMethods :
       sdk' = [sdk EXCEPT !.pending = Append(@, IssueRequest(sdk, ApiMethods[k]))]
  /\ UNCHANGED fnVars

\* setExecutionContext(ctx), at any point between two microtasks
SdkSetExecutionContext ==
  /\ sdk.constructed
  /\ sdk.sets < MaxSets
  /\ \E ctx \in Contexts :
       sdk' = [sdk EXCEPT !.executionContext = <<ctx>>, !.sets = @ + 1]
  /\ UNCHANGED fnVars

\* the caller's synchronous code has yielded: the oldest queued interceptor
\* runs and the request goes to the transport
SdkIntercept ==
  /\ sdk.pending # <<>>
  /\ sdk' = [sdk EXCEPT
               !.pending = Tail(@),
               !.sent = Append(@, interceptor(Head(sdk.pending), sdk.executionContext))]
  /\ UNCHANGED fnVars

NextSdk == SdkConstruct \/ SdkCall \/ SdkSetExecutionContext \/ SdkIntercept

SpecSdk == Init /\ [][NextSdk]_vars

(***************************************************************************)
(* Vocabulary of the properties                                            *)
(***************************************************************************)
\* slot i holds a request
HasReq(i) == req[i] # <<>>

\* slot i's response has been ended with a JSON body
SentJson(i) == res[i].ended /\ res[i].body # <<>>

\* the JSON body of slot i's response
JsonOf(i) == res[i].body[1]

\* the number of times f occurs in the trace cl
CountCalls(cl, f) == Cardinality({k \in DOMAIN cl : cl[k] = f})

StubNames == {"handleIndex", "handleReputation", "handleBootstrap"}

\* the stub handlers entered by slot i, in order
StubCalls(i) == SelectSeq(calls[i], LAMBDA f : f \in StubNames)

\* the stub handler and the layer name the routes are documented to use
RouteTable ==
  [p \in AgentPaths |->
     CASE p = "/v1/registry/index" ->
            [agent |-> "index", stub |-> "handleIndex", layer |-> "REGISTRY_INDEX"]
       [] p = "/v1/registry/reputation" ->
            [agent |-> "reputation", stub |-> "handleReputation",
             layer |-> "REGISTRY_REPUTATION"]
       [] p = "/v1/registry/bootstrap" ->
            [agent |-> "bootstrap", stub |-> "handleBootstrap",
             layer |-> "REGISTRY_BOOTSTRAP"]]

\* slot i holds a POST whose resolved path is an agent route
IsAgentPost(i) ==
  /\ HasReq(i)
  /\ req[i][1].method = "POST"
  /\ getRequestPath(req[i][1]) \in AgentPaths

\* the positions of the writeHead calls in a response log
WriteHeadAt(log) == {k \in DOMAIN log : log[k].op = "writeHead"}

\* header name/value is set by a setHeader call before position p of the log
SetBefore(log, p, name, value) ==
  \E q \in 1..(p - 1) :
    /\ log[q].op = "setHeader"
    /\ log[q].name = name
    /\ log[q].value = value

(***************************************************************************)
(* C1: a request whose method is OPTIONS, on any path and with any body or *)
(* headers, is answered 204 with an empty body after the four CORS headers *)
(* were set, and nothing else happens: no path resolution, no validation,  *)
(* no stub call, no execution metadata and no layers are written.          *)
(***************************************************************************)
C1_PreflightShortCircuit ==
  \A i \in Slots :
    (HasReq(i) /\ req[i][1].method = "OPTIONS") =>
      /\ pc[i] = "done"
      /\ res[i].ended
      /\ res[i].statusCode = 204
      /\ res[i].body = <<>>
      /\ Len(res[i].log) = Len(CORS_HEADERS) + 2
      /\ \A k \in DOMAIN CORS_HEADERS :
           /\ res[i].log[k].op = "setHeader"
           /\ res[i].log[k].name = CORS_HEADERS[k][1]
      /\ res[i].log[Len(CORS_HEADERS) + 1].op = "writeHead"
      /\ res[i].log[Len(CORS_HEADERS) + 2].op = "end"
      /\ calls[i] = <<"applyCors">>
      /\ frame[i] = <<>>

\* an OPTIONS request on an agent route carrying an object body was answered
C1_Witness ==
  \E i \in Slots :
    /\ HasReq(i)
    /\ req[i][1].method = "OPTIONS"
    /\ getRequestPath(req[i][1]) = "/v1/registry/index"
    /\ req[i][1].body.t = "object"
    /\ Len(req[i][1].body.keys) > 0
    /\ res[i].ended

(***************************************************************************)
(* C2: every response handler produces, whatever its status, carries the   *)
(* four fixed CORS headers with their fixed values, and each was set       *)
(* before any status line was written.                                     *)
(***************************************************************************)
C2_CorsOnEveryResponse ==
  \A i \in Slots :
    /\ \A p \in WriteHeadAt(res[i].log) :
         /\ SetBefore(res[i].log, p, "Access-Control-Allow-Origin", "*")
         /\ SetBefore(res[i].log, p, "Access-Control-Allow-Methods", "GET, POST, OPTIONS")
         /\ SetBefore(res[i].log, p, "Access-Control-Allow-Headers",
                      "Content-Type, Authorization, X-Correlation-Id")
         /\ SetBefore(res[i].log, p, "Access-Control-Max-Age", "3600")
    /\ res[i].ended =>
         /\ res[i].statusCode \in {204, 200, 400, 404, 405, 500}
         /\ {"Access-Control-Allow-Origin", "Access-Control-Allow-Methods",
             "Access-Control-Allow-Headers", "Access-Control-Max-Age"}
              \subseteq DOMAIN res[i].headers
         /\ res[i].headers["Access-Control-Allow-Origin"] = "*"
         /\ res[i].headers["Access-Control-Allow-Methods"] = "GET, POST, OPTIONS"
         /\ res[i].headers["Access-Control-Allow-Headers"] =
              "Content-Type, Authorization, X-Correlation-Id"
         /\ res[i].headers["Access-Control-Max-Age"] = "3600"

\* an error response was sent, its status line written after the CORS headers
C2_Witness ==
  \E i \in Slots :
    /\ res[i].ended
    /\ res[i].statusCode = 400
    /\ WriteHeadAt(res[i].log) # {}
    /\ "Access-Control-Max-Age" \in DOMAIN res[i].headers

(***************************************************************************)
(* C3: a stub handler is entered only for a POST on an agent route whose   *)
(* body validateRequestBody accepted (and after that call), at most once   *)
(* per request, and it is the stub mapped to the path; a request answered  *)
(* 204, 400, 404 or 405 has entered no stub.                               *)
(***************************************************************************)
C3_StubOnlyAfterValidation ==
  \A i \in Slots :
    /\ Len(StubCalls(i)) <= 1
    /\ Len(StubCalls(i)) = 1 =>
         /\ IsAgentPost(i)
         /\ LET route == RouteTable[getRequestPath(req[i][1])]
            IN /\ StubCalls(i)[1] = route.stub
               /\ validateRequestBody(req[i][1].body, route.agent) = <<>>
               /\ \E k \in DOMAIN calls[i] :
                    /\ calls[i][k] = "validateRequestBody"
                    /\ \E j \in DOMAIN calls[i] : j > k /\ calls[i][j] = route.stub
    /\ (res[i].ended /\ res[i].statusCode \in {204, 400, 404, 405}) =>
         Len(StubCalls(i)) = 0

\* a valid reputation request was answered 200 after handleReputation ran
C3_Witness ==
  \E i \in Slots :
    /\ IsAgentPost(i)
    /\ getRequestPath(req[i][1]) = "/v1/registry/reputation"
    /\ StubCalls(i) = <<"handleReputation">>
    /\ res[i].ended
    /\ res[i].statusCode = 200

(***************************************************************************)
(* C4: any method other than POST and OPTIONS on an agent route is         *)
(* answered 405 with body {error, execution_metadata, layers_executed},    *)
(* layers_executed being the single entry AGENT_ROUTING/completed,         *)
(* whatever the body: validation is never reached.                         *)
(***************************************************************************)
C4_WrongMethodIs405 ==
  \A i \in Slots :
    (/\ HasReq(i)
     /\ req[i][1].method \notin {"POST", "OPTIONS"}
     /\ getRequestPath(req[i][1]) \in AgentPaths) =>
      /\ pc[i] \in {"awaiting", "done"}
      /\ SentJson(i)
      /\ res[i].statusCode = 405
      /\ DOMAIN JsonOf(i) = {"error", "execution_metadata", "layers_executed"}
      /\ JsonOf(i).layers_executed = <<[layer |-> "AGENT_ROUTING", status |-> "completed"]>>
      /\ CountCalls(calls[i], "validateRequestBody") = 0
      /\ Len(StubCalls(i)) = 0

\* a GET on an agent route with a body that validation would reject got its 405
C4_Witness ==
  \E i \in Slots :
    /\ HasReq(i)
    /\ req[i][1].method = "GET"
    /\ getRequestPath(req[i][1]) = "/v1/registry/bootstrap"
    /\ validateRequestBody(req[i][1].body, "bootstrap") # <<>>
    /\ res[i].ended
    /\ res[i].statusCode = 405

(***************************************************************************)
(* C5: a POST on an agent route whose body is an object lacking a field of *)
(* the schema's required list is answered 400, the error names a missing   *)
(* required field, and layers_executed is exactly routing(completed)       *)
(* followed by REGISTRY_<AGENT>(failed, duration_ms 0).                    *)
(***************************************************************************)
\* the required fields of agent a that body does not have as a key
MissingRequired(body, a) ==
  {f \in Range(CONTRACT_SCHEMAS[a].request.required) : f \notin Range(body.keys)}

C5_MissingRequiredIs400 ==
  \A i \in Slots :
    (/\ IsAgentPost(i)
     /\ req[i][1].body.t \in {"object", "array"}
     /\ MissingRequired(req[i][1].body,
                        RouteTable[getRequestPath(req[i][1])].agent) # {}) =>
      LET route == RouteTable[getRequestPath(req[i][1])]
      IN /\ pc[i] \in {"awaiting", "done"}
         /\ SentJson(i)
         /\ res[i].statusCode = 400
         /\ JsonOf(i).error.text = "Missing required field: "
         /\ JsonOf(i).error.arg \in MissingRequired(req[i][1].body, route.agent)
         /\ JsonOf(i).layers_executed =
              <<[layer |-> "AGENT_ROUTING", status |-> "completed"],
                [layer |-> route.layer, status |-> "failed", duration_ms |-> 0]>>

\* a reputation request with agent_id but without operation got its 400
C5_Witness ==
  \E i \in Slots :
    /\ IsAgentPost(i)
    /\ getRequestPath(req[i][1]) = "/v1/registry/reputation"
    /\ req[i][1].body.t = "object"
    /\ "agent_id" \in Range(req[i][1].body.keys)
    /\ "operation" \notin Range(req[i][1].body.keys)
    /\ res[i].ended
    /\ res[i].statusCode = 400
    /\ JsonOf(i).error.arg = "operation"

(***************************************************************************)
(* C6 as stated: a POST on an agent route whose body contains a field the  *)
(* schema does not declare is answered 400 and the error names that field, *)
(* for every such body, also one that lacks a required field.              *)
(***************************************************************************)
\* the keys of body that agent a's request schema does not declare
UnknownKeys(body, a) ==
  {f \in Range(body.keys) : f \notin Range(CONTRACT_SCHEMAS[a].request.properties)}

C6_Original_UnknownFieldAlwaysNamed ==
  \A i \in Slots :
    (IsAgentPost(i) /\ req[i][1].body.t = "object" /\ res[i].ended) =>
      \A f \in UnknownKeys(req[i][1].body, RouteTable[getRequestPath(req[i][1])].agent) :
        /\ res[i].statusCode = 400
        /\ JsonOf(i).error.arg = f

(***************************************************************************)
(* C6 amended: a POST on an agent route whose body contains an undeclared  *)
(* field is answered 400; when no required field is missing the error is   *)
(* "Unknown field: " naming the first undeclared key in the body's key     *)
(* order, and when a required field is missing the error names that        *)
(* required field instead.                                                 *)
(***************************************************************************)
C6_UnknownFieldIs400 ==
  \A i \in Slots :
    (/\ IsAgentPost(i)
     /\ req[i][1].body.t = "object"
     /\ UnknownKeys(req[i][1].body, RouteTable[getRequestPath(req[i][1])].agent) # {}) =>
      LET body == req[i][1].body
          a == RouteTable[getRequestPath(req[i][1])].agent
          unknownAt == {k \in DOMAIN body.keys : body.keys[k] \in UnknownKeys(body, a)}
          first == CHOOSE k \in unknownAt : \A k2 \in unknownAt : k <= k2
      IN /\ pc[i] \in {"awaiting", "done"}
         /\ SentJson(i)
         /\ res[i].statusCode = 400
         /\ Len(StubCalls(i)) = 0
         /\ MissingRequired(body, a) = {} =>
              /\ JsonOf(i).error.text = "Unknown field: "
              /\ JsonOf(i).error.arg = body.keys[first]
         /\ MissingRequired(body, a) # {} =>
              /\ JsonOf(i).error.text = "Missing required field: "
              /\ JsonOf(i).error.arg \in MissingRequired(body, a)

\* an index request {mode, extra, bogus} got a 400 naming extra
C6_Witness ==
  \E i \in Slots :
    /\ IsAgentPost(i)
    /\ getRequestPath(req[i][1]) = "/v1/registry/index"
    /\ req[i][1].body.t = "object"
    /\ req[i][1].body.keys = <<"mode", "extra", "bogus">>
    /\ res[i].ended
    /\ res[i].statusCode = 400
    /\ JsonOf(i).error.arg = "extra"

\* the five canonical routes, as the 404 body lists them
FiveRoutes ==
  <<"/health", "/contracts", "/v1/registry/index", "/v1/registry/reputation",
    "/v1/registry/bootstrap">>

(***************************************************************************)
(* C7: for a request that is not OPTIONS, every resolved path outside the  *)
(* five canonical routes is answered 404, available_routes listing exactly *)
(* those five; no such path gets another status.                           *)
(***************************************************************************)
C7_OutsideFiveIs404 ==
  \A i \in Slots :
    (/\ HasReq(i)
     /\ req[i][1].method # "OPTIONS"
     /\ getRequestPath(req[i][1]) \notin Range(FiveRoutes)) =>
      /\ SentJson(i)
      /\ res[i].statusCode = 404
      /\ JsonOf(i).available_routes = FiveRoutes

\* a request whose URL is /v1/registry/index/ with a query string, and no path
\* field, got its 404
C7_Witness ==
  \E i \in Slots :
    /\ HasReq(i)
    /\ req[i][1].method = "POST"
    /\ req[i][1].path = <<>>
    /\ req[i][1].url = <<[pathname |-> "/v1/registry/index/", search |-> "?x=1"]>>
    /\ res[i].ended
    /\ res[i].statusCode = 404

(***************************************************************************)
(* C8: the 404 response has body {error, available_routes,                 *)
(* execution_metadata, layers_executed} whose layers_executed is the one   *)
(* entry AGENT_ROUTING/failed; no agent layer, no validation, no stub.     *)
(***************************************************************************)
C8_NotFoundEnvelope ==
  \A i \in Slots :
    (res[i].ended /\ res[i].statusCode = 404) =>
      /\ SentJson(i)
      /\ DOMAIN JsonOf(i) =
           {"error", "available_routes", "execution_metadata", "layers_executed"}
      /\ JsonOf(i).layers_executed = <<[layer |-> "AGENT_ROUTING", status |-> "failed"]>>
      /\ CountCalls(calls[i], "validateRequestBody") = 0
      /\ CountCalls(calls[i], "handleAgentRequest") = 0
      /\ CountCalls(calls[i], "routeAgent") = 0
      /\ Len(StubCalls(i)) = 0

\* a POST with a valid index body on the unprefixed path /index got its 404
C8_Witness ==
  \E i \in Slots :
    /\ HasReq(i)
    /\ req[i][1].method = "POST"
    /\ getRequestPath(req[i][1]) = "/index"
    /\ validateRequestBody(req[i][1].body, "index") = <<>>
    /\ res[i].ended
    /\ res[i].statusCode = 404

(***************************************************************************)
(* C9 as stated: every response handler sends, success or error, carries   *)
(* execution_metadata with trace_id, timestamp, service and execution_id   *)
(* and a non-empty layers_executed whose first entry is named              *)
(* AGENT_ROUTING, and the metadata was built exactly once.                 *)
(***************************************************************************)
MetadataFields == {"trace_id", "timestamp", "service", "execution_id"}

C9_Original_EveryResponseHasMetadata ==
  \A i \in Slots :
    res[i].ended =>
      /\ SentJson(i)
      /\ DOMAIN JsonOf(i).execution_metadata = MetadataFields
      /\ Len(JsonOf(i).layers_executed) >= 1
      /\ JsonOf(i).layers_executed[1].layer = "AGENT_ROUTING"
      /\ CountCalls(calls[i], "buildExecutionMetadata") = 1

(***************************************************************************)
(* C9 amended: every response other than the 204 answer to OPTIONS carries *)
(* execution_metadata with exactly the four fields (service being          *)
(* registry-agents) and a non-empty layers_executed whose first entry is   *)
(* named AGENT_ROUTING, the metadata having been built exactly once for    *)
(* the request; the 204 answer has no body and builds no metadata.         *)
(***************************************************************************)
C9_EveryBodyHasMetadata ==
  \A i \in Slots :
    res[i].ended =>
      IF res[i].statusCode = 204
      THEN /\ req[i][1].method = "OPTIONS"
           /\ res[i].body = <<>>
           /\ CountCalls(calls[i], "buildExecutionMetadata") = 0
      ELSE /\ req[i][1].method # "OPTIONS"
           /\ SentJson(i)
           /\ {"execution_metadata", "layers_executed"} \subseteq DOMAIN JsonOf(i)
           /\ DOMAIN JsonOf(i).execution_metadata = MetadataFields
           /\ JsonOf(i).execution_metadata.service = "registry-agents"
           /\ Len(JsonOf(i).layers_executed) >= 1
           /\ JsonOf(i).layers_executed[1].layer = "AGENT_ROUTING"
           /\ CountCalls(calls[i], "buildExecutionMetadata") = 1

\* a 400 response was sent with its metadata
C9_Witness ==
  \E i \in Slots :
    /\ SentJson(i)
    /\ res[i].statusCode = 400
    /\ "execution_metadata" \in DOMAIN JsonOf(i)

(***************************************************************************)
(* C10 as stated: in every response body, success and error alike, the     *)
(* first entry of layers_executed is named AGENT_ROUTING and has status    *)
(* completed.                                                              *)
(***************************************************************************)
C10_Original_FirstLayerCompleted ==
  \A i \in Slots :
    SentJson(i) =>
      /\ JsonOf(i).layers_executed[1].layer = "AGENT_ROUTING"
      /\ JsonOf(i).layers_executed[1].status = "completed"

(***************************************************************************)
(* C10 amended: in every response body the first entry of layers_executed  *)
(* is named AGENT_ROUTING; its status is completed in every response       *)
(* except the 404 for an unmatched path, where it is failed.               *)
(***************************************************************************)
C10_FirstLayerIsRouting ==
  \A i \in Slots :
    SentJson(i) =>
      /\ JsonOf(i).layers_executed[1].layer = "AGENT_ROUTING"
      /\ JsonOf(i).layers_executed[1].status =
           IF res[i].statusCode = 404 THEN "failed" ELSE "completed"
      /\ DOMAIN JsonOf(i).layers_executed[1] = {"layer", "status"}

\* a 405 was sent: an error body whose first layer is completed
C10_Witness ==
  \E i \in Slots :
    /\ SentJson(i)
    /\ res[i].statusCode = 405
    /\ "error" \in DOMAIN JsonOf(i)
    /\ JsonOf(i).layers_executed[1].status = "completed"

\* the layer names of the three agents
AgentLayers == {RouteTable[p].layer : p \in AgentPaths}

\* the positions of the agent layer entries in a layers_executed array
AgentEntriesAt(layers) == {k \in DOMAIN layers : layers[k].layer \in AgentLayers}

\* slot i's response has been ended with a JSON body that has layers_executed
SentLayers(i) == SentJson(i) /\ "layers_executed" \in DOMAIN JsonOf(i)

(***************************************************************************)
(* C11: layers_executed has at most two entries.  An agent layer entry     *)
(* occurs at most once and only in second position, only for a POST on an  *)
(* agent route, and names the agent of the matched route; its status is    *)
(* 'completed' exactly when the response status is 200 and 'failed'        *)
(* exactly when it is 400 or 500.                                          *)
(***************************************************************************)
C11_AtMostOneAgentLayer ==
  \A i \in Slots :
    SentLayers(i) =>
      LET layers == JsonOf(i).layers_executed
      IN /\ Len(layers) <= 2
         /\ AgentEntriesAt(layers) \subseteq {2}
         /\ \A k \in AgentEntriesAt(layers) :
              /\ IsAgentPost(i)
              /\ layers[k].layer = RouteTable[getRequestPath(req[i][1])].layer
              /\ (layers[k].status = "completed") <=> (res[i].statusCode = 200)
              /\ (layers[k].status = "failed") <=> (res[i].statusCode \in {400, 500})

\* a 500 response was sent whose layers_executed has three entries: the agent
\* entry marked completed, pushed before the 200 body failed to serialize, then
\* the one marked failed
C11_Witness ==
  \E i \in Slots :
    /\ SentLayers(i)
    /\ res[i].statusCode = 500
    /\ Len(JsonOf(i).layers_executed) = 3
    /\ JsonOf(i).layers_executed[2].status = "completed"
    /\ JsonOf(i).layers_executed[3].status = "failed"

\* slot i's response has been ended with a JSON body that has execution_metadata
SentMetadata(i) == SentJson(i) /\ "execution_metadata" \in DOMAIN JsonOf(i)

\* the X-Correlation-Id header of slot i's request
CorrOf(i) == req[i][1].corr

\* the values a generated identifier can take: a UUID, never the empty string
IsGeneratedId(x) == x.s = "uuid" /\ x.k \in Nat

(***************************************************************************)
(* C12, as stated: for every request other than OPTIONS, when the          *)
(* X-Correlation-Id header is present its value is the trace_id, verbatim, *)
(* for every header value, the empty string and a multi-valued header      *)
(* included; when it is absent the trace_id is present and non-empty.      *)
(***************************************************************************)
C12_Original_HeaderVerbatim ==
  \A i \in Slots :
    SentMetadata(i) =>
      LET traceId == JsonOf(i).execution_metadata.trace_id
      IN /\ CorrOf(i).t # "undefined" =>
              /\ traceId.k = 0
              /\ <<traceId.s>> = CorrOf(i).items
         /\ CorrOf(i).t = "undefined" => traceId.s # ""

(***************************************************************************)
(* C12: for every request other than OPTIONS that is answered with a body, *)
(* the trace_id is the first value of the X-Correlation-Id header (the     *)
(* header itself when it is one string, its first element when it is       *)
(* multi-valued) whenever that value is a non-empty string; when the       *)
(* header is absent, is the empty string, or has no or an empty first      *)
(* element, the trace_id is a generated identifier, never empty.           *)
(***************************************************************************)
C12_TraceIdFromFirstValue ==
  \A i \in Slots :
    SentMetadata(i) =>
      LET traceId == JsonOf(i).execution_metadata.trace_id
          items == CorrOf(i).items
      IN IF CorrOf(i).t # "undefined" /\ Len(items) > 0 /\ items[1] # ""
         THEN traceId.k = 0 /\ traceId.s = items[1]
         ELSE IsGeneratedId(traceId) /\ traceId.s # ""

\* an agent request carrying X-Correlation-Id: test-trace-123 was answered with
\* that trace_id
C12_Witness ==
  \E i \in Slots :
    /\ SentMetadata(i)
    /\ getRequestPath(req[i][1]) \in AgentPaths
    /\ CorrOf(i) = [t |-> "string", items |-> <<"test-trace-123">>]
    /\ JsonOf(i).execution_metadata.trace_id = Str("test-trace-123")

\* slot i holds a POST on path p that was answered 200 with a data key
Answered200(i, p) ==
  /\ IsAgentPost(i)
  /\ getRequestPath(req[i][1]) = p
  /\ SentJson(i)
  /\ res[i].statusCode = 200
  /\ "data" \in DOMAIN JsonOf(i)

\* the body of slot i's request
BodyOf(i) == req[i][1].body

\* field f is a key of slot i's request body
Provided(i, f) == Includes(BodyOf(i).keys, f)

(***************************************************************************)
(* C13, as stated: for every index request that passes validation, the     *)
(* response data has indexed_count equal to the number of elements of      *)
(* asset_ids when asset_ids is provided (a value that is no array has no   *)
(* elements) and 0 otherwise, failed_count 0, errors the empty list and    *)
(* mode equal to the request's mode, whatever asset_type is.               *)
(***************************************************************************)
C13_Original_CountIsElements ==
  \A i \in Slots :
    Answered200(i, "/v1/registry/index") =>
      LET asset_ids == GetField(BodyOf(i), "asset_ids")
      IN JsonOf(i).data =
           [indexed_count |-> IF Provided(i, "asset_ids") /\ asset_ids.t = "array"
                              THEN asset_ids.n ELSE 0,
            failed_count |-> 0,
            mode |-> GetField(BodyOf(i), "mode"),
            errors |-> <<>>]

(***************************************************************************)
(* C13: for every index request that passes validation and is answered    *)
(* 200, the response data has indexed_count equal to the number of         *)
(* elements of asset_ids when asset_ids is an array, 0 when it is absent   *)
(* or null, and for any other value the value of its length property when  *)
(* it has one that is neither null nor undefined (a string's character     *)
(* count, the 7 of { length: 7 }) and 0 otherwise (no length property, or  *)
(* { length: null }); failed_count is 0, errors is the empty list, mode is *)
(* the request's mode; asset_type has no influence on the data.            *)
(***************************************************************************)
C13_CountIsLength ==
  \A i \in Slots :
    Answered200(i, "/v1/registry/index") =>
      LET asset_ids == GetField(BodyOf(i), "asset_ids")
      IN JsonOf(i).data =
           [indexed_count |->
              CASE ~Provided(i, "asset_ids") -> 0
                [] asset_ids.t = "array" -> asset_ids.n
                [] asset_ids.t = "null" -> 0
                [] asset_ids.t \in {"string", "lengthObject"} -> asset_ids.n
                [] asset_ids.t = "nullLengthObject" -> 0
                [] OTHER -> 0,
            failed_count |-> 0,
            mode |-> GetField(BodyOf(i), "mode"),
            errors |-> <<>>]

\* an index request with a two-element asset_ids and an asset_type was
\* answered with indexed_count 2
C13_Witness ==
  \E i \in Slots :
    /\ Answered200(i, "/v1/registry/index")
    /\ GetField(BodyOf(i), "asset_ids") = JsArray2
    /\ Provided(i, "asset_type")
    /\ JsonOf(i).data.indexed_count = 2

\* the exchanges seen so far: those completed and those whose response was
\* ended in a slot
Exchanges == Range(history) \cup {Exchange(i) : i \in {j \in Slots : res[j].ended}}

\* exchange e is a POST on path p answered 200 with data
Success(e, p) ==
  /\ e.req.method = "POST"
  /\ getRequestPath(e.req) = p
  /\ e.status = 200
  /\ e.data # <<>>

\* exchange e1's request was taken up before e2's: both responses carry a
\* generated execution_id, drawn in order of arrival
ArrivedBefore(e1, e2) ==
  /\ e1.metadata # <<>>
  /\ e2.metadata # <<>>
  /\ e1.metadata[1].execution_id.k < e2.metadata[1].execution_id.k

\* a reputation response but for its timestamp
Scores(data) ==
  [agent_id |-> data.agent_id,
   overall_score |-> data.overall_score,
   category_scores |-> data.category_scores,
   signal_count |-> data.signal_count]

(***************************************************************************)
(* C14: after any sequence of requests, whatever number of reputation      *)
(* 'record' requests with whatever signal came before for the same         *)
(* agent_id, every successful reputation response has agent_id equal to    *)
(* the request's, overall_score 0, signal_count 0 and category_scores with *)
(* exactly the four keys reliability, accuracy, latency, compliance, all   *)
(* 0; two successful responses for the same agent_id carry the same        *)
(* scores, so a 'record' never changes what a later 'query' returns.       *)
(***************************************************************************)
C14_ReputationIsStateless ==
  /\ \A e \in Exchanges :
       Success(e, "/v1/registry/reputation") =>
         Scores(e.data[1]) =
           [agent_id |-> GetField(e.req.body, "agent_id"),
            overall_score |-> 0,
            category_scores |->
              [reliability |-> 0, accuracy |-> 0, latency |-> 0, compliance |-> 0],
            signal_count |-> 0]
  /\ \A e1, e2 \in Exchanges :
       (/\ Success(e1, "/v1/registry/reputation")
        /\ Success(e2, "/v1/registry/reputation")
        /\ GetField(e1.req.body, "agent_id") = GetField(e2.req.body, "agent_id")) =>
         Scores(e1.data[1]) = Scores(e2.data[1])

\* two 'record' requests for an agent_id, one carrying a signal, were answered
\* 200, and a 'query' for the same agent_id that arrived after both was too
C14_Witness ==
  /\ Len(history) = 2
  /\ \A k \in {1, 2} :
       /\ Success(history[k], "/v1/registry/reputation")
       /\ GetField(history[k].req.body, "operation") = JsRecord
  /\ \E k \in {1, 2} : GetField(history[k].req.body, "signal") = JsSignal
  /\ \E i \in Slots :
       /\ res[i].ended
       /\ Success(Exchange(i), "/v1/registry/reputation")
       /\ GetField(BodyOf(i), "operation") = JsQuery
       /\ GetField(BodyOf(i), "agent_id") = GetField(history[1].req.body, "agent_id")
       /\ ArrivedBefore(history[1], Exchange(i))
       /\ ArrivedBefore(history[2], Exchange(i))

\* the exchanges seen so far, numbered: those completed, in order, then those
\* whose response was ended in a slot
Seen ==
  [k \in DOMAIN history \cup {Len(history) + j : j \in {j \in Slots : res[j].ended}} |->
     IF k <= Len(history) THEN history[k] ELSE Exchange(k - Len(history))]

\* what the claim states of the data of a bootstrap exchange but for agent_id,
\* config_applied expected to be applied
BootstrapDataIs(e, applied) ==
  LET data == e.data[1]
  IN /\ data.status = "created"
     /\ data.agent_name = GetField(e.req.body, "agent_name")
     /\ data.template_id = GetField(e.req.body, "template_id")
     /\ data.config_applied = applied
     /\ data.endpoints.health.arg = "/health"
     /\ data.endpoints.invoke.arg = "/v1/registry/bootstrap"
     /\ data.endpoints.health.text = data.endpoints.invoke.text
     /\ data.endpoints.health.text # ""

\* no two bootstrap exchanges seen carry the same agent_id
FreshAgentIds ==
  \A k1, k2 \in DOMAIN Seen :
    (/\ k1 # k2
     /\ Success(Seen[k1], "/v1/registry/bootstrap")
     /\ Success(Seen[k2], "/v1/registry/bootstrap")) =>
      Seen[k1].data[1].agent_id # Seen[k2].data[1].agent_id

(***************************************************************************)
(* C15, as stated: for every bootstrap request that passes validation, the *)
(* response data has status 'created', the request's agent_name and        *)
(* template_id, config_applied equal to config_overrides when the request  *)
(* provides it and {} otherwise, endpoints.health = BASE + '/health' and   *)
(* endpoints.invoke = BASE + '/v1/registry/bootstrap' for one same base,   *)
(* and no two responses of a sequence of calls carry the same agent_id.    *)
(***************************************************************************)
C15_Original_ConfigEchoedWhenProvided ==
  /\ \A k \in DOMAIN Seen :
       Success(Seen[k], "/v1/registry/bootstrap") =>
         BootstrapDataIs(Seen[k],
           IF Includes(Seen[k].req.body.keys, "config_overrides")
           THEN GetField(Seen[k].req.body, "config_overrides")
           ELSE JsEmptyObject)
  /\ FreshAgentIds

(***************************************************************************)
(* C15: for every bootstrap request that passes validation and is answered *)
(* 200, the response data has status 'created', the request's agent_name   *)
(* and template_id, config_applied equal to config_overrides when the      *)
(* request provides it with a value other than null and {} when it is      *)
(* absent or null, endpoints.health = BASE + '/health' and                 *)
(* endpoints.invoke = BASE + '/v1/registry/bootstrap' for one same base;   *)
(* across any sequence of bootstrap calls, calls with identical bodies     *)
(* included, no two responses carry the same agent_id.                     *)
(***************************************************************************)
C15_BootstrapCreated ==
  /\ \A k \in DOMAIN Seen :
       Success(Seen[k], "/v1/registry/bootstrap") =>
         BootstrapDataIs(Seen[k],
           IF /\ Includes(Seen[k].req.body.keys, "config_overrides")
              /\ GetField(Seen[k].req.body, "config_overrides") # JsNull
           THEN GetField(Seen[k].req.body, "config_overrides")
           ELSE JsEmptyObject)
  /\ FreshAgentIds

\* three bootstrap calls with one same body carrying config_overrides were
\* answered 200 under a FUNCTION_BASE_URL, with three agent_ids
C15_Witness ==
  /\ env = <<CustomBaseUrl>>
  /\ Len(history) = 3
  /\ \A k \in 1..3 :
       /\ Success(history[k], "/v1/registry/bootstrap")
       /\ history[k].req.body = history[1].req.body
       /\ history[k].data[1].config_applied = JsSignal
       /\ history[k].data[1].endpoints.health.text = CustomBaseUrl
  /\ Cardinality({history[k].data[1].agent_id : k \in 1..3}) = 3

(***************************************************************************)
(* C16: a GET request whose path resolves to /health or / is answered 200  *)
(* with a body of exactly the keys status, agents, execution_metadata and  *)
(* layers_executed: status is 'healthy', agents is index, reputation,      *)
(* bootstrap in that order, execution_metadata names the service           *)
(* 'registry-agents', and layers_executed is the single entry              *)
(* routing(completed).                                                     *)
(***************************************************************************)
C16_HealthEnvelope ==
  \A i \in Slots :
    (/\ HasReq(i)
     /\ req[i][1].method = "GET"
     /\ getRequestPath(req[i][1]) \in {"/health", "/"}) =>
      /\ pc[i] = "done"
      /\ SentJson(i)
      /\ res[i].statusCode = 200
      /\ DOMAIN JsonOf(i) = {"status", "agents", "execution_metadata", "layers_executed"}
      /\ JsonOf(i).status = "healthy"
      /\ JsonOf(i).agents = <<"index", "reputation", "bootstrap">>
      /\ JsonOf(i).execution_metadata.service = "registry-agents"
      /\ JsonOf(i).layers_executed = <<[layer |-> "AGENT_ROUTING", status |-> "completed"]>>

\* a GET without req.path whose URL is / followed by a query string was
\* answered with the health body
C16_Witness ==
  \E i \in Slots :
    /\ HasReq(i)
    /\ req[i][1].method = "GET"
    /\ req[i][1].path = <<>>
    /\ req[i][1].url = <<[pathname |-> "/", search |-> "?x=1"]>>
    /\ SentJson(i)
    /\ JsonOf(i).status = "healthy"

\* the agent slot i's POST is routed to
AgentOf(i) == RouteTable[getRequestPath(req[i][1])].agent

\* the fields the request schema of agent a declares, which its stub reads
DeclaredFields(a) == Range(CONTRACT_SCHEMAS[a].request.properties)

\* the request fields each stub copies into its response data
EchoedFields ==
  [index |-> {"mode"},
   reputation |-> {"agent_id"},
   bootstrap |-> {"template_id", "agent_name", "config_overrides"}]

\* slot i's body is an object with every required key and no undeclared key
StructurallyValid(i) ==
  /\ BodyOf(i).t \in {"object", "array"}
  /\ MissingRequired(BodyOf(i), AgentOf(i)) = {}
  /\ UnknownKeys(BodyOf(i), AgentOf(i)) = {}

\* no field the stub reads from slot i's body has a getter that throws
StubReturns(i) ==
  \A f \in DeclaredFields(AgentOf(i)) : GetField(BodyOf(i), f).t # "getter"

\* slot i holds a POST on an agent route whose body passed validation and
\* whose stub handler returned, and the invocation is over
ValidatedAndReturned(i) ==
  /\ IsAgentPost(i)
  /\ pc[i] \in {"done", "rejected"}
  /\ StructurallyValid(i)
  /\ StubReturns(i)

\* slot i's response is the 200 envelope of an agent response
SuccessEnvelope(i) ==
  /\ SentJson(i)
  /\ res[i].statusCode = 200
  /\ DOMAIN JsonOf(i) = {"data", "execution_metadata", "layers_executed"}
  /\ Len(JsonOf(i).layers_executed) = 2
  /\ JsonOf(i).layers_executed[1] = [layer |-> "AGENT_ROUTING", status |-> "completed"]
  /\ DOMAIN JsonOf(i).layers_executed[2] = {"layer", "status", "duration_ms"}
  /\ JsonOf(i).layers_executed[2].layer = RouteTable[getRequestPath(req[i][1])].layer
  /\ JsonOf(i).layers_executed[2].status = "completed"
  /\ JsonOf(i).layers_executed[2].duration_ms \in Nat

(***************************************************************************)
(* C17, as stated: every POST to an agent route whose body passes          *)
(* validation and whose handler returns is answered 200 with a body of the *)
(* keys data, execution_metadata and layers_executed, no error key, and    *)
(* exactly two layer entries: routing(completed), then the agent's layer   *)
(* REGISTRY_<AGENT>, completed, with a non-negative number as duration_ms. *)
(***************************************************************************)
C17_Original_ValidatedIs200 ==
  \A i \in Slots : ValidatedAndReturned(i) => SuccessEnvelope(i)

(***************************************************************************)
(* C17: every POST to an agent route whose body passes validation, whose   *)
(* handler returns and whose response data JSON.stringify can serialize is *)
(* answered 200 with a body of the keys data, execution_metadata and       *)
(* layers_executed, no error key, and exactly two layer entries:           *)
(* routing(completed), then the agent's layer REGISTRY_<AGENT>, completed, *)
(* with a non-negative number as duration_ms, on the tests' mock response *)
(* and on a ServerResponse alike.  When the data cannot be serialized no   *)
(* 200 body is sent.                                                       *)
(***************************************************************************)
C17_SerializableIs200 ==
  \A i \in Slots :
    ValidatedAndReturned(i) =>
      IF \A f \in EchoedFields[AgentOf(i)] : Serializable(GetField(BodyOf(i), f))
      THEN pc[i] = "done" /\ SuccessEnvelope(i)
      ELSE ~SuccessEnvelope(i) /\ (SentJson(i) => "data" \notin DOMAIN JsonOf(i))

\* a bootstrap POST with config_overrides was answered with the 200 envelope,
\* the agent layer reporting a duration above 0
C17_Witness ==
  \E i \in Slots :
    /\ ValidatedAndReturned(i)
    /\ AgentOf(i) = "bootstrap"
    /\ Provided(i, "config_overrides")
    /\ SuccessEnvelope(i)
    /\ JsonOf(i).layers_executed[2].duration_ms > 0

(***************************************************************************)
(* C18: validateRequestBody fails with 'Request body must be a JSON        *)
(* object' for every body that is absent or not an object: undefined,      *)
(* null, every primitive and every array, on each of the three agent       *)
(* routes.                                                                 *)
(***************************************************************************)
C18_NonObjectBodyRejected ==
  \A i \in Slots :
    (/\ IsAgentPost(i)
     /\ BodyOf(i).t \in {"undefined", "null", "number", "string", "boolean", "array"}) =>
      /\ validateRequestBody(BodyOf(i), AgentOf(i)) =
           <<[text |-> "Request body must be a JSON object", arg |-> ""]>>
      /\ pc[i] \in {"awaiting", "done"}
      /\ SentJson(i)
      /\ res[i].statusCode = 400
      /\ JsonOf(i).error = [text |-> "Request body must be a JSON object", arg |-> ""]

\* a POST whose body is the empty array was answered 400 naming a missing
\* required field
C18_Witness ==
  \E i \in Slots :
    /\ IsAgentPost(i)
    /\ BodyOf(i) = EmptyArrayBody
    /\ SentJson(i)
    /\ res[i].statusCode = 400
    /\ JsonOf(i).error.text = "Missing required field: "

\* the order in which each stub reads the fields of its body
ReadOrder ==
  [index |-> <<"mode", "asset_ids", "asset_type">>,
   reputation |-> <<"agent_id", "operation", "signal">>,
   bootstrap |-> <<"template_id", "agent_name", "config_overrides">>]

\* slot i holds a POST on an agent route whose body passed validation and
\* whose stub handler threw, and the stub's promise has been awaited
StubThrew(i) ==
  /\ IsAgentPost(i)
  /\ StructurallyValid(i)
  /\ ~StubReturns(i)
  /\ pc[i] \notin {"idle", "awaiting"}

(***************************************************************************)
(* C19: whenever a stub handler raises an exception during dispatch, it is *)
(* caught in handleAgentRequest: handler returns instead of rejecting, the *)
(* response is 500, layers_executed is the routing entry followed by       *)
(* exactly one agent entry, failed, with duration_ms 0, and error is the   *)
(* exception's message when an Error was thrown and 'Internal agent error' *)
(* when anything else was.                                                 *)
(***************************************************************************)
C19_StubExceptionIs500 ==
  \A i \in Slots :
    StubThrew(i) =>
      LET thrown == Destructure(BodyOf(i), ReadOrder[AgentOf(i)], 1)[1]
      IN /\ pc[i] = "done"
         /\ SentJson(i)
         /\ res[i].statusCode = 500
         /\ Cardinality(WriteHeadAt(res[i].log)) = 1
         /\ DOMAIN JsonOf(i) = {"error", "execution_metadata", "layers_executed"}
         /\ JsonOf(i).layers_executed =
              <<[layer |-> "AGENT_ROUTING", status |-> "completed"],
                [layer |-> RouteTable[getRequestPath(req[i][1])].layer,
                 status |-> "failed", duration_ms |-> 0]>>
         /\ JsonOf(i).error =
              IF thrown.isError THEN [text |-> thrown.message, arg |-> ""]
              ELSE [text |-> "Internal agent error", arg |-> ""]

\* a stub threw an Error and the response carries its message
C19_Witness ==
  \E i \in Slots :
    /\ StubThrew(i)
    /\ AgentOf(i) = "reputation"
    /\ GetField(BodyOf(i), "agent_id") = JsThrowsError
    /\ SentJson(i)
    /\ res[i].statusCode = 500
    /\ JsonOf(i).error = [text |-> "boom", arg |-> ""]

(***************************************************************************)
(* C20: validateRequestBody checks presence and absence only.  It returns  *)
(* null exactly when the body is a non-null object in which every required *)
(* field is a key and every own key is a declared property, whatever the   *)
(* values are: a request is answered 400 exactly when its body fails this  *)
(* test, never because of a value outside an enum, of the wrong type or    *)
(* out of range.                                                           *)
(***************************************************************************)
C20_StructuralValidationOnly ==
  \A i \in Slots :
    IsAgentPost(i) =>
      /\ (validateRequestBody(BodyOf(i), AgentOf(i)) = <<>>) <=> StructurallyValid(i)
      /\ pc[i] = "done" => ((res[i].statusCode = 400) <=> ~StructurallyValid(i))

\* an index request whose mode is null and whose asset_ids is a string, both of
\* the wrong type, was answered 200
C20_Witness ==
  \E i \in Slots :
    /\ IsAgentPost(i)
    /\ AgentOf(i) = "index"
    /\ GetField(BodyOf(i), "mode") = JsNull
    /\ GetField(BodyOf(i), "asset_ids") = JsString
    /\ validateRequestBody(BodyOf(i), "index") = <<>>
    /\ pc[i] = "done"
    /\ res[i].statusCode = 200

\* the positions of schema a's required list whose field is no key of body
MissingAt(body, a) ==
  {k \in DOMAIN CONTRACT_SCHEMAS[a].request.required :
     CONTRACT_SCHEMAS[a].request.required[k] \notin Range(body.keys)}

\* the positions of body's keys that schema a does not declare
UnknownAt(body, a) ==
  {k \in DOMAIN body.keys :
     body.keys[k] \notin Range(CONTRACT_SCHEMAS[a].request.properties)}

\* the least element of a non-empty set of positions
Least(S) == CHOOSE k \in S : \A j \in S : k <= j

(***************************************************************************)
(* C21: validateRequestBody reports exactly one error and never            *)
(* aggregates.  Required fields are checked before unknown keys: a body    *)
(* with a missing required field gets 'Missing required field: <f>', <f>   *)
(* the first missing field in the order of the schema's required list,     *)
(* even when it also has unknown keys; only a body missing no required     *)
(* field gets 'Unknown field: <k>', <k> the first unrecognized key in the  *)
(* body's key order.                                                       *)
(***************************************************************************)
C21_FirstErrorOnly ==
  \A i \in Slots :
    (IsAgentPost(i) /\ BodyOf(i).t \in {"object", "array"}) =>
      LET a == AgentOf(i)
          missing == MissingAt(BodyOf(i), a)
          unknown == UnknownAt(BodyOf(i), a)
          result == validateRequestBody(BodyOf(i), a)
      IN /\ Len(result) <= 1
         /\ missing # {} =>
              result = <<[text |-> "Missing required field: ",
                          arg |-> CONTRACT_SCHEMAS[a].request.required[Least(missing)]]>>
         /\ (missing = {} /\ unknown # {}) =>
              result = <<[text |-> "Unknown field: ",
                          arg |-> BodyOf(i).keys[Least(unknown)]]>>
         /\ (missing = {} /\ unknown = {}) => result = <<>>
         /\ (pc[i] = "done" /\ result # <<>>) =>
              /\ res[i].statusCode = 400
              /\ JsonOf(i).error = result[1]

\* a reputation body lacking both required fields and holding two unknown keys
\* was answered 400 naming agent_id, the first required field
C21_Witness ==
  \E i \in Slots :
    /\ IsAgentPost(i)
    /\ AgentOf(i) = "reputation"
    /\ BodyOf(i).t = "object"
    /\ Cardinality(MissingAt(BodyOf(i), "reputation")) = 2
    /\ Cardinality(UnknownAt(BodyOf(i), "reputation")) = 2
    /\ SentJson(i)
    /\ res[i].statusCode = 400
    /\ JsonOf(i).error = [text |-> "Missing required field: ", arg |-> "agent_id"]

\* request r carries X-Execution-Id and X-Parent-Span-Id, those of context c
CarriesContext(r, c) ==
  /\ {"X-Execution-Id", "X-Parent-Span-Id"} \subseteq DOMAIN r.headers
  /\ r.headers["X-Execution-Id"] = HeaderValue(c.executionId)
  /\ r.headers["X-Parent-Span-Id"] = HeaderValue(c.parentSpanId)

\* request r carries neither of the two headers
CarriesNoContext(r) ==
  {"X-Execution-Id", "X-Parent-Span-Id"} \cap DOMAIN r.headers = {}

\* the requests handed to the transport
SentRequests == Range(sdk.sent)

\* the request this step hands to the transport
JustSent == sdk'.sent[Len(sdk'.sent)]

(***************************************************************************)
(* C22: the client injects X-Execution-Id and X-Parent-Span-Id, derived    *)
(* from its execution context, on every request it sends, whatever the API *)
(* method; a request issued after setExecutionContext(c) carries           *)
(* c.executionId and c.parentSpanId.                                       *)
(***************************************************************************)
C22_HeadersOnEveryRequest ==
  \A r \in SentRequests :
    /\ \E c \in Contexts : CarriesContext(r, c)
    /\ r.calledAfterSet => CarriesContext(r, r.calledUnder[1])

\* a client constructed without context was given one, and a health request
\* issued afterwards went out with that context's two values
C22_Witness ==
  \E r \in SentRequests :
    /\ r.name = "health"
    /\ r.calledUnder = <<CtxTwo>>
    /\ sdk.sets = 1
    /\ CarriesContext(r, CtxTwo)


\* the Authorization header the constructor builds from apiToken
Bearer(apiToken) == [text |-> "Bearer ", arg |-> apiToken]

(***************************************************************************)
(* C23: when an apiToken is configured every request carries               *)
(* Authorization: 'Bearer <apiToken>', whatever the other constructor      *)
(* options (an axiosConfig with its own headers included); when none is    *)
(* configured the client adds no Authorization header, so a request has    *)
(* one only if the caller's axiosConfig supplied it.                       *)
(***************************************************************************)
C23_BearerOnEveryRequest ==
  \A r \in SentRequests :
    IF sdk.apiToken # <<>>
    THEN /\ "Authorization" \in DOMAIN r.headers
         /\ r.headers["Authorization"] = Bearer(sdk.apiToken[1])
    ELSE "Authorization" \in DOMAIN r.headers =>
           r.headers["Authorization"].text # "Bearer "

\* a client configured with apiToken and no axiosConfig headers sent a request
\* carrying the Bearer header
C23_Witness ==
  \E r \in SentRequests :
    /\ sdk.apiToken = <<"your-api-token">>
    /\ "Authorization" \in DOMAIN r.headers
    /\ r.headers["Authorization"] = Bearer("your-api-token")
    /\ r.headers["Content-Type"] = HeaderValue("application/json")


(***************************************************************************)
(* C28: a request sent through the client carries the execution context    *)
(* that was current when its API method was called, also when              *)
(* setExecutionContext is called between that call and the run of the      *)
(* request's interceptor; the two headers of one request always come from  *)
(* the same context object.                                                *)
(***************************************************************************)
C28_ContextOfTheCall ==
  \A r \in SentRequests :
    /\ IF r.calledUnder = <<>> THEN CarriesNoContext(r)
       ELSE CarriesContext(r, r.calledUnder[1])
    /\ CarriesNoContext(r) \/ \E c \in Contexts : CarriesContext(r, c)

\* a request called under the first context went out with that context's
\* headers, and the context was replaced only after its interceptor had run
C28_Witness ==
  \E r \in SentRequests :
    /\ r.calledUnder = <<CtxOne>>
    /\ CarriesContext(r, CtxOne)
    /\ sdk.executionContext = <<CtxTwo>>


\* the invocation in slot i is suspended with the continuation of function at
\* next to run
SuspendedIn(i, at) == pc[i] = "awaiting" /\ frame[i] # <<>> /\ frame[i][1].at = at

\* what belongs to the invocation in slot i
Local(i) == <<pc[i], req[i], res[i], frame[i], calls[i]>>

\* the data the stub of slot i's route returns for slot i's body alone, the
\* generated agent_id of a bootstrap left open
OwnData(i) ==
  CASE AgentOf(i) = "index" -> {handleIndex(BodyOf(i)).value[1]}
    [] AgentOf(i) = "reputation" -> {handleReputation(BodyOf(i)).value[1]}
    [] AgentOf(i) = "bootstrap" ->
         {handleBootstrap(BodyOf(i), k).value[1] : k \in 0..uuid}

(***************************************************************************)
(* C24: with invocations in flight together, their continuations taking    *)
(* turns, each response is built from its own request only.  A step of one *)
(* invocation leaves what belongs to every other invocation unchanged; the *)
(* continuation of routeAgent keeps the metadata and layers of its frame   *)
(* and passes on the data its own stub returned; the response written by   *)
(* the continuation of handleAgentRequest carries the execution_metadata   *)
(* built when its request arrived and a layers_executed of the routing     *)
(* entry pushed for it followed by the entry of its own agent; the         *)
(* execution_id of a response is shared with no other exchange; and the    *)
(* data of a 200 response is what the stub returns for that request's      *)
(* body.                                                                   *)
(***************************************************************************)
C24_InvocationsAreIsolated ==
  /\ [](\A i \in Slots :
          (HasReq(i) /\ SentMetadata(i)) =>
            /\ \A e \in Exchanges :
                 (e.metadata # <<>> /\ e # Exchange(i)) =>
                   e.metadata[1].execution_id # JsonOf(i).execution_metadata.execution_id
            /\ \A j \in Slots \ {i} :
                 SentMetadata(j) =>
                   JsonOf(j).execution_metadata.execution_id #
                     JsonOf(i).execution_metadata.execution_id
            /\ \A k \in DOMAIN JsonOf(i).layers_executed :
                 JsonOf(i).layers_executed[k].layer \in
                   {"AGENT_ROUTING"} \cup
                   (IF IsAgentPost(i) THEN {AgentLayerName(AgentOf(i))} ELSE {})
            /\ Answered200(i, getRequestPath(req[i][1])) => JsonOf(i).data \in OwnData(i))
  /\ [][\A i \in Slots :
          /\ \A j \in Slots \ {i} : Local(i)' = Local(i) \/ Local(j)' = Local(j)
          /\ (SuspendedIn(i, "routeAgent") /\ frame'[i] # frame[i]) =>
               /\ frame'[i][1].at = "handleAgentRequest"
               /\ frame'[i][1].agentName = frame[i][1].agentName
               /\ frame'[i][1].metadata = frame[i][1].metadata
               /\ frame'[i][1].layers = frame[i][1].layers
               /\ frame[i][1].pending.settled = "fulfilled" =>
                    frame'[i][1].pending.value[1].data = frame[i][1].pending.value[1]
          /\ (SuspendedIn(i, "handleAgentRequest") /\ frame'[i] # frame[i]) =>
               /\ res'[i].ended
               /\ res'[i].body[1].execution_metadata = frame[i][1].metadata
               /\ SubSeq(res'[i].body[1].layers_executed, 1, Len(frame[i][1].layers)) =
                    frame[i][1].layers
               /\ res'[i].statusCode = 200 =>
                    res'[i].body[1].data = frame[i][1].pending.value[1].data]_vars

\* a request that failed validation was served; then a bootstrap and a
\* reputation request were called one after the other: the bootstrap response
\* is written with its own metadata while its promise is still pending, the
\* reputation request has its duration fixed and its response not yet written
C24_Witness ==
  /\ Len(history) = 1
  /\ history[1].status = 400
  /\ SuspendedIn(1, "handler")
  /\ Answered200(1, "/v1/registry/bootstrap")
  /\ SuspendedIn(2, "handleAgentRequest")
  /\ frame[2][1].agentName = "reputation"
  /\ ~res[2].ended
  /\ JsonOf(1).execution_metadata # frame[2][1].metadata
  /\ JsonOf(1).data.agent_name = GetField(BodyOf(1), "agent_name")


\* slot i holds a request other than a preflight that resolves to path p, and
\* the invocation is over
ServedOn(i, p) ==
  /\ HasReq(i)
  /\ pc[i] = "done"
  /\ req[i][1].method # "OPTIONS"
  /\ getRequestPath(req[i][1]) = p

(***************************************************************************)
(* C25: no request modifies the contract schema tables.  The               *)
(* CONTRACT_SCHEMAS object in memory equals the static tables in every     *)
(* state and no step changes it; whatever other request was served before  *)
(* or is in flight, a request for /contracts is answered 200 with          *)
(* layers_executed exactly [routing(completed)] and a contracts object     *)
(* holding the request and response schema of index, reputation and        *)
(* bootstrap, equal to the static tables; and a POST with an object body   *)
(* on an agent route is rejected by validation exactly when the static     *)
(* tables say a required field is missing or a field is undeclared.        *)
(***************************************************************************)
C25_SchemasNeverModified ==
  /\ [](schemas = CONTRACT_SCHEMAS)
  /\ [][schemas' = schemas]_vars
  /\ [](\A i \in Slots :
          /\ ServedOn(i, "/contracts") =>
               /\ SentJson(i)
               /\ res[i].statusCode = 200
               /\ DOMAIN JsonOf(i) = {"contracts", "execution_metadata", "layers_executed"}
               /\ JsonOf(i).layers_executed =
                    <<[layer |-> "AGENT_ROUTING", status |-> "completed"]>>
               /\ DOMAIN JsonOf(i).contracts = {"index", "reputation", "bootstrap"}
               /\ \A a \in DOMAIN JsonOf(i).contracts :
                    /\ DOMAIN JsonOf(i).contracts[a] = {"request", "response"}
                    /\ JsonOf(i).contracts[a] = CONTRACT_SCHEMAS[a]
          /\ (IsAgentPost(i) /\ pc[i] = "done" /\ BodyOf(i).t \in {"object", "array"}) =>
               (res[i].statusCode = 400 <=> ~StructurallyValid(i)))

\* an index POST was rejected for an unknown field, a bootstrap POST that
\* arrived later was answered 200, and GET /contracts, arrived last, returns
\* the static tables
C25_Witness ==
  \E i, j \in Slots :
    /\ i # j
    /\ Answered200(j, "/v1/registry/bootstrap")
    /\ ServedOn(i, "/contracts")
    /\ req[i][1].method = "GET"
    /\ JsonOf(j).execution_metadata.execution_id.k <
         JsonOf(i).execution_metadata.execution_id.k
    /\ JsonOf(i).contracts = CONTRACT_SCHEMAS
    /\ Len(history) = 1
    /\ history[1].status = 400
    /\ history[1].req.body = IndexBodyWithUnknown


\* the path the claims expect for slot i's request: the path field when it is
\* given and not empty, else the pathname of the raw URL, "/" without a URL
ExpectedPath(i) ==
  LET r == req[i][1]
  IN IF r.path # <<>> /\ r.path[1] # "" THEN r.path[1]
     ELSE IF r.url # <<>> THEN r.url[1].pathname
     ELSE "/"

\* slot i holds a request other than a preflight that the handler has taken up
Routed(i) == HasReq(i) /\ req[i][1].method # "OPTIONS" /\ pc[i] # "idle"

\* the route handlers entered for slot i
RouteHandlers(i) ==
  {f \in {"handleHealth", "handleContracts", "handleAgentRequest"} :
     CountCalls(calls[i], f) > 0}

(***************************************************************************)
(* C26: the path of a request is its path field when that is given and not *)
(* empty, otherwise the pathname of its raw URL without the query string,  *)
(* and it is matched exactly: '/health' and '/' go to handleHealth,        *)
(* '/contracts' to handleContracts, the three agent paths to               *)
(* handleAgentRequest, and every other path is answered 404 naming that    *)
(* path, no route handler entered.                                         *)
(***************************************************************************)
C26_ExactPathMatch ==
  \A i \in Slots :
    Routed(i) =>
      LET path == ExpectedPath(i)
      IN CASE path \in {"/health", "/"} -> RouteHandlers(i) = {"handleHealth"}
           [] path = "/contracts" -> RouteHandlers(i) = {"handleContracts"}
           [] path \in AgentPaths ->
                RouteHandlers(i) = {"handleAgentRequest"} /\ res[i].statusCode # 404
           [] OTHER ->
                /\ RouteHandlers(i) = {}
                /\ pc[i] = "done"
                /\ SentJson(i)
                /\ res[i].statusCode = 404
                /\ JsonOf(i).error = [text |-> "Route not found: ", arg |-> path]

\* a request whose path field has a trailing slash and whose URL names the
\* health route is answered 404 for the path field's value
C26_Witness ==
  \E i \in Slots :
    /\ Routed(i)
    /\ req[i][1].path = <<"/health/">>
    /\ req[i][1].url = <<[pathname |-> "/health", search |-> "?x=1"]>>
    /\ SentJson(i)
    /\ res[i].statusCode = 404
    /\ JsonOf(i).error.arg = "/health/"

\* slot i's response is the 200 health envelope
HealthEnvelope(i) ==
  /\ SentJson(i)
  /\ res[i].statusCode = 200
  /\ DOMAIN JsonOf(i) = {"status", "agents", "execution_metadata", "layers_executed"}
  /\ JsonOf(i).status = "healthy"
  /\ JsonOf(i).agents = <<"index", "reputation", "bootstrap">>

\* slot i's response is the 200 contracts envelope
ContractsEnvelope(i) ==
  /\ SentJson(i)
  /\ res[i].statusCode = 200
  /\ DOMAIN JsonOf(i) = {"contracts", "execution_metadata", "layers_executed"}
  /\ JsonOf(i).contracts = CONTRACT_SCHEMAS

(***************************************************************************)
(* C29: the meta routes do not check the HTTP method.  For every method    *)
(* other than OPTIONS and every body, a request resolving to /health or /  *)
(* gets the 200 health envelope and one resolving to /contracts the 200    *)
(* contracts envelope; a 405 is returned only on the three agent paths.    *)
(***************************************************************************)
C29_MetaRoutesIgnoreMethod ==
  \A i \in Slots :
    Routed(i) =>
      LET path == getRequestPath(req[i][1])
      IN /\ path \in {"/health", "/"} => HealthEnvelope(i)
         /\ path = "/contracts" => ContractsEnvelope(i)
         /\ (res[i].ended /\ res[i].statusCode = 405) => path \in AgentPaths

\* a DELETE with a body on /health was answered with the health envelope
C29_Witness ==
  \E i \in Slots :
    /\ Routed(i)
    /\ req[i][1].method = "DELETE"
    /\ req[i][1].body = SampleIndexBody
    /\ getRequestPath(req[i][1]) = "/health"
    /\ HealthEnvelope(i)


\* the positions of the end calls in a response log
EndAt(log) == {k \in DOMAIN log : log[k].op = "end"}

(***************************************************************************)
(* C27: every invocation of handler returns having written exactly one     *)
(* response: once it is past its await, handler has returned (its promise  *)
(* is not rejected) and writeHead and end were each called exactly once,   *)
(* on every path, the one where sending the 200 body fails inside the try  *)
(* block of handleAgentRequest included.                                   *)
(***************************************************************************)
C27_ExactlyOneResponse ==
  \A i \in Slots :
    (HasReq(i) /\ pc[i] \notin {"idle", "awaiting"}) =>
      /\ pc[i] = "done"
      /\ Cardinality(WriteHeadAt(res[i].log)) = 1
      /\ Cardinality(EndAt(res[i].log)) = 1

\* a stub whose promise was rejected by a throwing getter: the catch block
\* wrote the one 500 response
C27_Witness ==
  \E i \in Slots :
    /\ IsAgentPost(i)
    /\ pc[i] = "done"
    /\ ~StubReturns(i)
    /\ res[i].statusCode = 500
    /\ Cardinality(WriteHeadAt(res[i].log)) = 1
    /\ Cardinality(EndAt(res[i].log)) = 1

====
